---- MODULE Spec2Model ----
(***************************************************************************)
(* Fuzzilli native harness: libcoverage (parent side coverage engine), the *)
(* child side sanitizer-coverage shim, and libreprl (POSIX REPRL context). *)
(*                                                                         *)
(* Several state machines share this module.  SpecCov is the coverage     *)
(* engine with the instrumented child writing the shared region; SpecReprl *)
(* is the REPRL context driving a child over the control pipes; the        *)
(* smaller ones follow them.  Each leaves the others' variables unchanged. *)
(***************************************************************************)
EXTENDS Integers, Sequences, FiniteSets, TLC

(***************************************************************************)
(* Bounds of the model.                                                    *)
(***************************************************************************)
\* number of edge guards of the instrumented module (stop - start)
NumGuards == 65
\* evaluate with edge tracking is explored while every count is below this
MaxCount == 2

(***************************************************************************)
(* Program constants.                                                      *)
(***************************************************************************)
SHM_SIZE == 2105344
MAX_EDGES == (SHM_SIZE - 4) * 8
MAX_FEEDBACK_NEXUS == 100000
NJS_SHM_SIZE == 1048576
NJS_MAX_EDGES == (NJS_SHM_SIZE - 4) * 8
\* evaluate walks the bitmap in uint64_t words
WordBits == 64

(***************************************************************************)
(* uint32_t arithmetic.  The checker's integers are 32 bits wide, so a     *)
(* uint32_t is held as the int32_t with the same bits: 0xffffffff is -1.   *)
(***************************************************************************)
INT32_MAX == 2147483647
INT32_MIN == -INT32_MAX - 1
\* x + 1 and x - 1 on uint32_t, wrapping
Inc32(x) == IF x = INT32_MAX THEN INT32_MIN ELSE x + 1
Dec32(x) == IF x = INT32_MIN THEN INT32_MAX ELSE x - 1
\* a + n for a small n >= 0, wrapping
RECURSIVE Add32(_, _)
Add32(a, n) == IF n = 0 THEN a ELSE Add32(Inc32(a), n - 1)
\* a > b on uint32_t
Above32(a, b) == IF (a < 0) = (b < 0) THEN a > b ELSE a < 0

\* offsetof(struct shmem_data, edges) in libcoverage.h: four uint32_t, one
\* uint64_t, MAX_FEEDBACK_NEXUS entries of two uint32_t each.
EdgesOffset == 4 * 4 + 8 + 8 * MAX_FEEDBACK_NEXUS
\* offsetof(struct shmem_data, edges) in njs_coverage.h: one uint32_t.
NjsEdgesOffset == 4
\* byte offsets of the header fields the parent reads or writes
FeedbackNexusCountOffset == 4
TurbofanBitsOffset == 16
FeedbackNexusDataOffset == 24

Layouts == {"libcoverage", "njs"}

ChildEdgesOffset(layout) == IF layout = "njs" THEN NjsEdgesOffset ELSE EdgesOffset
ChildMaxEdges(layout) == IF layout = "njs" THEN NJS_MAX_EDGES ELSE MAX_EDGES
\* SHM_SIZE of the header the child was built with
ChildShmSize(layout) == IF layout = "njs" THEN NJS_SHM_SIZE ELSE SHM_SIZE

VARIABLES
    shm_num_edges,  \* shmem->num_edges, the uint32_t at offset 0 of the region
    shm_bits,       \* bit addresses (byte * 8 + bit) above offset 4 that are 1
    child_cov,      \* the child's shim: header it was built with, guards
    context,        \* struct cov_context of the parent, plus its lifecycle
    cov_ret         \* what the last libcoverage call returned

cov_vars == <<shm_num_edges, shm_bits, child_cov, context, cov_ret>>

VARIABLES
    reprl_ctx,      \* struct reprl_context
    pc,             \* where the parent is: "idle" or a point inside a call
    loc,            \* arguments and locals of the running reprl_execute
    procs,          \* the children of this context, by pid: process and shim state
    pipes,          \* the control pipes made for each child, by pid
    chan,           \* file positions and content of the data channels
    ret,            \* what the last libreprl call returned
    interrupts      \* how many system calls of the parent have been failed

reprl_vars == <<reprl_ctx, pc, loc, procs, pipes, chan, ret, interrupts>>

VARIABLES
    sizing,         \* cov_finish_initialization on any num_edges: sizes only
    fdt,            \* the descriptor tables of the fuzzer process and its children
    fsv,            \* a forkserver: the caller, the supervisor, its grandchildren
    win,            \* the REPRL context of libreprl-windows.c
    lve,            \* edge counts and the least-visited-edges query on them
    dch,            \* the data channels a child writes and the parent fetches
    cyc,            \* one child through its executions: guards, bitmap, the two loops
    thr,            \* threads of the child tripping guards at once
    hs,             \* the start of forkserver() in the target
    ecw             \* libcoverage with counts that reach the width of uint32_t

\* the variables of the smaller state machines
rest_vars == <<sizing, fdt, fsv, win, lve, dch, cyc, thr, hs, ecw>>

\* what the steps of each smaller machine leave alone
beside_sizing == <<fdt, fsv, win, lve, dch, cyc, thr, hs, ecw>>
beside_fdt == <<sizing, fsv, win, lve, dch, cyc, thr, hs, ecw>>
beside_fsv == <<sizing, fdt, win, lve, dch, cyc, thr, hs, ecw>>
beside_win == <<sizing, fdt, fsv, lve, dch, cyc, thr, hs, ecw>>
beside_lve == <<sizing, fdt, fsv, win, dch, cyc, thr, hs, ecw>>
beside_dch == <<sizing, fdt, fsv, win, lve, cyc, thr, hs, ecw>>
beside_cyc == <<sizing, fdt, fsv, win, lve, dch, thr, hs, ecw>>
beside_thr == <<sizing, fdt, fsv, win, lve, dch, cyc, hs, ecw>>
beside_hs == <<sizing, fdt, fsv, win, lve, dch, cyc, thr, ecw>>
beside_ecw == <<sizing, fdt, fsv, win, lve, dch, cyc, thr, hs>>

vars == <<shm_num_edges, shm_bits, child_cov, context, cov_ret,
          reprl_ctx, pc, loc, procs, pipes, chan, ret, interrupts,
          sizing, fdt, fsv, win, lve, dch, cyc, thr, hs, ecw>>

(***************************************************************************)
(* Bit helpers of coverage.c.  A parent-private bitmap is the set of its   *)
(* bit indices that are 1; the shared region is the set of bit addresses   *)
(* that are 1.                                                             *)
(***************************************************************************)
\* bits[index / 8] >> (index % 8) & 1, bit address of `index` in a byte array
BitAddr(byte_offset, index) == (byte_offset + (index \div 8)) * 8 + (index % 8)

edge(bits, index) == IF index \in bits THEN 1 ELSE 0

set_edge(bits, index) == bits \cup {index}

clear_edge(bits, index) == bits \ {index}

\* edge(edges_ptr, i) with edges_ptr = shmem + offsetof(struct shmem_data, edges)
live_edge(shm, i) == edge(shm, BitAddr(EdgesOffset, i))

\* memset(bits, 0xff, bitmap_size)
AllOnes(bitmap_size) == 0 .. (bitmap_size * 8 - 1)

\* the value of a little-endian unsigned field of `width` bits at byte_offset
RECURSIVE SumBits(_)
SumBits(positions) ==
    IF positions = {} THEN 0
    ELSE LET p == CHOOSE x \in positions : TRUE
         IN  2 ^ p + SumBits(positions \ {p})
FieldValue(shm, byte_offset, width) ==
    SumBits({b - byte_offset * 8 :
                b \in {x \in shm : x >= byte_offset * 8 /\ x < byte_offset * 8 + width}})

\* the guards the scripts of this model reach: the last bit of the first
\* 64-bit word of the bitmap and the first bit of the second word
Hot == {WordBits - 1, WordBits}

(***************************************************************************)
(* Child side: the sanitizer-coverage shim (njs_fuzzilli_module.c).        *)
(***************************************************************************)
\* a reset that leaves every guard at 0
ResetGuardsNone(layout) == [k \in 1 .. NumGuards |-> 0]

\* for (x = start; x < stop && N < MAX_EDGES; x++) *x = ++N;
ResetGuards(layout) ==
    [k \in 1 .. NumGuards |-> IF k <= ChildMaxEdges(layout) THEN k ELSE 0]

\* The child process starts: the guard-init callback of its single module
\* (a second call finds *start set and returns).
sanitizer_cov_trace_pc_guard_init ==
    /\ ~child_cov.started
    /\ shm_num_edges' = NumGuards
    /\ child_cov' = [child_cov EXCEPT !.started = TRUE,
                                      !.guards = ResetGuards(child_cov.layout)]
    /\ UNCHANGED <<shm_bits, context, cov_ret>>
    /\ UNCHANGED <<reprl_vars, rest_vars>>

\* index = *guard; if (!index) return; edges[index / 8] |= 1 << (index % 8); *guard = 0;
TripEffect(shm, layout, index) ==
    shm \cup {BitAddr(ChildEdgesOffset(layout), index)}

sanitizer_cov_trace_pc_guard(g) ==
    /\ child_cov.started
    /\ LET index == child_cov.guards[g] IN
       IF index = 0
       THEN UNCHANGED <<shm_bits, child_cov>>
       ELSE /\ shm_bits' = TripEffect(shm_bits, child_cov.layout, index)
            /\ child_cov' = [child_cov EXCEPT !.guards[g] = 0]
    /\ UNCHANGED <<shm_num_edges, context, cov_ret>>
    /\ UNCHANGED <<reprl_vars, rest_vars>>

sanitizer_cov_reset_edgeguards ==
    /\ child_cov.started
    /\ child_cov' = [child_cov EXCEPT !.guards = ResetGuards(child_cov.layout)]
    /\ UNCHANGED <<shm_num_edges, shm_bits, context, cov_ret>>
    /\ UNCHANGED <<reprl_vars, rest_vars>>

(***************************************************************************)
(* Parent side: libcoverage (coverage.c).                                  *)
(***************************************************************************)
Ret(op, rv, edge_indices) == [op |-> op, rv |-> rv, edge_indices |-> edge_indices]

\* uint32_t bitmap_size = (num_edges + 7) / 8;
\* bitmap_size += (7 - ((bitmap_size - 1) % 8));
BitmapSize(num_edges) ==
    LET b == (num_edges + 7) \div 8
    IN  b + (7 - ((b - 1) % 8))

\* memset(bits, 0xff, bitmap_size); ... clear_edge(bits, 0);
\* InitialBits without the clear_edge
InitialBitsKeepZero(bitmap_size) == AllOnes(bitmap_size)

InitialBits(bitmap_size) == clear_edge(AllOnes(bitmap_size), 0)

\* The two checks of cov_finish_initialization on the value the child wrote:
\* num_edges == 0 before, and num_edges > MAX_EDGES after, num_edges += 1.
FinishFailure(written) ==
    IF written = 0 THEN "NotInstrumented"
    ELSE IF Above32(Inc32(written), MAX_EDGES) THEN "TooManyEdges"
    ELSE "none"

cov_finish_initialization(should_track_edges) ==
    /\ context.phase = "initialized"
    /\ LET num_edges == Inc32(shm_num_edges) IN
       IF FinishFailure(shm_num_edges) # "none"
       THEN \* exit(-1)
            context' = [context EXCEPT !.phase = "exited"]
       ELSE context' = [context EXCEPT
                !.phase = "ready",
                !.num_edges = num_edges,
                !.bitmap_size = BitmapSize(num_edges),
                !.should_track_edges = should_track_edges,
                !.virgin_bits = InitialBits(BitmapSize(num_edges)),
                !.crash_bits = InitialBits(BitmapSize(num_edges)),
                !.edge_count = IF should_track_edges
                               THEN [i \in 0 .. num_edges - 1 |-> 0]
                               ELSE <<>>,
                !.current_feedback_nexus = <<>>,
                !.previous_feedback_nexus = <<>>]
    /\ cov_ret' = Ret("cov_finish_initialization", 0, <<>>)
    /\ UNCHANGED <<shm_num_edges, shm_bits, child_cov>>
    /\ UNCHANGED <<reprl_vars, rest_vars>>

\* the parent's view of the live bitmap: the indices i with edge(edges_ptr, i) = 1
\* among the bitmap_size bytes at offsetof(struct shmem_data, edges)
Live(shm, bitmap_size) ==
    {b - EdgesOffset * 8 :
        b \in {x \in shm : /\ x >= EdgesOffset * 8
                            /\ x < (EdgesOffset + bitmap_size) * 8}}

\* the bits of 64-bit word w of a bitmap
Word(bits, w) == {i \in bits : i \div WordBits = w}

\* ScanBits with the clear_edge(virgin_bits, i) left out
RECURSIVE ScanBitsNoClear(_, _, _, _)
ScanBitsNoClear(live, acc, i, stop) ==
    IF i >= stop THEN acc
    ELSE IF edge(live, i) = 1 /\ edge(acc.virgin_bits, i) = 1
         THEN ScanBitsNoClear(live, [virgin_bits |-> acc.virgin_bits,
                                     edge_indices |-> Append(acc.edge_indices, i)],
                              i + 1, stop)
         ELSE ScanBitsNoClear(live, acc, i + 1, stop)

\* for (uint32_t i = index; i < index + 64; i++) if both set: clear, append
RECURSIVE ScanBits(_, _, _, _)
ScanBits(live, acc, i, stop) ==
    IF i >= stop THEN acc
    ELSE IF edge(live, i) = 1 /\ edge(acc.virgin_bits, i) = 1
         THEN ScanBits(live, [virgin_bits |-> clear_edge(acc.virgin_bits, i),
                              edge_indices |-> Append(acc.edge_indices, i)],
                       i + 1, stop)
         ELSE ScanBits(live, acc, i + 1, stop)

\* while (current < end) { if (*current && (*current & *virgin)) ...; current++; virgin++; }
RECURSIVE ScanWords(_, _, _, _)
ScanWords(live, acc, w, nwords) ==
    IF w >= nwords THEN acc
    ELSE IF Word(live, w) # {} /\ (\E i \in Word(live, w) : i \in acc.virgin_bits)
         THEN ScanWords(live, ScanBits(live, acc, w * WordBits, w * WordBits + WordBits),
                        w + 1, nwords)
         ELSE ScanWords(live, acc, w + 1, nwords)

\* second pass: context->edge_count[i]++ for every edge set in the live bitmap
CountPass(live, edge_count) ==
    [i \in DOMAIN edge_count |->
        IF edge(live, i) = 1 THEN Inc32(edge_count[i]) ELSE edge_count[i]]

internal_evaluate(shm, ctx, virgin_bits) ==
    LET live == Live(shm, ctx.bitmap_size)
        first == ScanWords(live, [virgin_bits |-> virgin_bits, edge_indices |-> <<>>],
                           0, ctx.bitmap_size \div 8)
    IN  [virgin_bits |-> first.virgin_bits,
         edge_indices |-> first.edge_indices,
         edge_count |-> IF ctx.should_track_edges
                        THEN CountPass(live, ctx.edge_count)
                        ELSE ctx.edge_count]

\* the live edges of the parent's view of the shared bitmap
LiveEdges == Live(shm_bits, context.bitmap_size)

\* edge counts are explored up to MaxCount
BelowMaxCount ==
    context.should_track_edges =>
        \A i \in LiveEdges : i \in DOMAIN context.edge_count => context.edge_count[i] < MaxCount

Min(a, b) == IF a < b THEN a ELSE b

\* copy count and the first count entries of feedback_nexus_data from shmem
cov_update_feedback_nexus(shm, ctx) ==
    LET count == FieldValue(shm, FeedbackNexusCountOffset, 32)
    IN  [ctx EXCEPT !.current_feedback_nexus =
            <<[count |-> count,
               nexus_data |-> [i \in 1 .. Min(count, MAX_FEEDBACK_NEXUS) |->
                                 FieldValue(shm, FeedbackNexusDataOffset + 8 * (i - 1), 64)]]>>]

cov_update_optimization_bits(shm, ctx) ==
    [ctx EXCEPT !.turbofan_optimization_bits_current =
                    FieldValue(shm, TurbofanBitsOffset, 64)]

cov_evaluate ==
    /\ context.phase = "ready"
    /\ BelowMaxCount
    /\ LET r == internal_evaluate(shm_bits, context, context.virgin_bits)
           num_new_edges == Len(r.edge_indices)
           c1 == [context EXCEPT !.virgin_bits = r.virgin_bits,
                                 !.edge_count = r.edge_count,
                                 !.found_edges = Add32(context.found_edges, num_new_edges)]
       IN  /\ context' = cov_update_optimization_bits(shm_bits,
                             cov_update_feedback_nexus(shm_bits, c1))
           /\ cov_ret' = Ret("cov_evaluate", IF num_new_edges > 0 THEN 1 ELSE 0,
                             r.edge_indices)
    /\ UNCHANGED <<shm_num_edges, shm_bits, child_cov>>
    /\ UNCHANGED <<reprl_vars, rest_vars>>

\* cov_evaluate_crash on the map of cov_evaluate
cov_evaluate_crashOneMap ==
    /\ context.phase = "ready"
    /\ BelowMaxCount
    /\ LET r == internal_evaluate(shm_bits, context, context.virgin_bits)
           num_new_edges == Len(r.edge_indices)
       IN  /\ context' = [context EXCEPT !.virgin_bits = r.virgin_bits,
                                         !.edge_count = r.edge_count]
           /\ cov_ret' = Ret("cov_evaluate_crash", IF num_new_edges > 0 THEN 1 ELSE 0, <<>>)
    /\ UNCHANGED <<shm_num_edges, shm_bits, child_cov>>
    /\ UNCHANGED <<reprl_vars, rest_vars>>

cov_evaluate_crash ==
    /\ context.phase = "ready"
    /\ BelowMaxCount
    /\ LET r == internal_evaluate(shm_bits, context, context.crash_bits)
           num_new_edges == Len(r.edge_indices)
       IN  /\ context' = [context EXCEPT !.crash_bits = r.virgin_bits,
                                         !.edge_count = r.edge_count]
           /\ cov_ret' = Ret("cov_evaluate_crash", IF num_new_edges > 0 THEN 1 ELSE 0, <<>>)
    /\ UNCHANGED <<shm_num_edges, shm_bits, child_cov>>
    /\ UNCHANGED <<reprl_vars, rest_vars>>

\* CompareEqual returning 1 at the first edge that is set
RECURSIVE CompareEqualAny(_, _, _)
CompareEqualAny(shm, edges, i) ==
    IF i > Len(edges) THEN (IF edges = <<>> THEN 1 ELSE 0)
    ELSE IF live_edge(shm, edges[i]) = 1 THEN 1
         ELSE CompareEqualAny(shm, edges, i + 1)

\* for (i = 0; i < num_edges; i++) if (edge(edges_ptr, edges[i]) == 0) return 0; return 1;
RECURSIVE CompareEqual(_, _, _)
CompareEqual(shm, edges, i) ==
    IF i > Len(edges) THEN 1
    ELSE IF live_edge(shm, edges[i]) = 0 THEN 0
         ELSE CompareEqual(shm, edges, i + 1)

\* the edge lists handed to cov_compare_equal: ascending lists over Hot
RECURSIVE SeqOfSet(_)
SeqOfSet(S) ==
    IF S = {} THEN <<>>
    ELSE LET m == CHOOSE x \in S : \A y \in S : x <= y
         IN  <<m>> \o SeqOfSet(S \ {m})

cov_compare_equal(edges) ==
    /\ context.phase = "ready"
    /\ cov_ret' = Ret("cov_compare_equal", CompareEqual(shm_bits, edges, 1), edges)
    /\ UNCHANGED <<shm_num_edges, shm_bits, child_cov, context>>
    /\ UNCHANGED <<reprl_vars, rest_vars>>

\* swap current and previous; the new current, if allocated, gets count 0
clear_feedback_nexus(ctx) ==
    LET temp == ctx.previous_feedback_nexus
    IN  [ctx EXCEPT !.previous_feedback_nexus = ctx.current_feedback_nexus,
                    !.current_feedback_nexus =
                        IF temp = <<>> THEN <<>>
                        ELSE <<[count |-> 0, nexus_data |-> <<>>]>>]

\* previous = current (the write of 0 to the shared field is in cov_clear_bitmap)
clear_optimization_bits(ctx) ==
    [ctx EXCEPT !.turbofan_optimization_bits_previous =
                    ctx.turbofan_optimization_bits_current]

\* the bit addresses of bytes [byte_offset, byte_offset + size)
ByteRange(byte_offset, size) == (byte_offset * 8) .. ((byte_offset + size) * 8 - 1)

cov_clear_bitmap ==
    /\ context.phase = "ready"
    /\ shm_bits' = (shm_bits \ ByteRange(EdgesOffset, context.bitmap_size))
                       \ ByteRange(TurbofanBitsOffset, 8)
    /\ context' = clear_optimization_bits(clear_feedback_nexus(context))
    /\ cov_ret' = Ret("cov_clear_bitmap", 0, <<>>)
    /\ UNCHANGED <<shm_num_edges, child_cov>>
    /\ UNCHANGED <<reprl_vars, rest_vars>>

\* the assertions of cov_clear_edge_data that hold for this index
ClearEdgeAsserts(ctx, index) ==
    /\ ctx.should_track_edges => ctx.edge_count[index] # 0
    /\ edge(ctx.virgin_bits, index) = 0

ClearEdgeData(ctx, index) ==
    [ctx EXCEPT !.edge_count = IF ctx.should_track_edges
                               THEN [ctx.edge_count EXCEPT ![index] = 0]
                               ELSE ctx.edge_count,
                !.found_edges = Dec32(ctx.found_edges),
                !.virgin_bits = set_edge(ctx.virgin_bits, index)]

\* the indices handed to cov_clear_edge_data
ClearIndices == {0} \cup Hot

cov_clear_edge_data(index) ==
    /\ context.phase = "ready"
    /\ IF ClearEdgeAsserts(context, index)
       THEN context' = ClearEdgeData(context, index)
       ELSE \* a failed assert aborts the process
            context' = [context EXCEPT !.phase = "aborted"]
    /\ cov_ret' = Ret("cov_clear_edge_data", 0, <<index>>)
    /\ UNCHANGED <<shm_num_edges, shm_bits, child_cov>>
    /\ UNCHANGED <<reprl_vars, rest_vars>>

cov_reset_state ==
    /\ context.phase = "ready"
    /\ context' = [context EXCEPT
            !.virgin_bits = InitialBits(context.bitmap_size),
            !.crash_bits = InitialBits(context.bitmap_size),
            !.edge_count = IF context.edge_count # <<>>
                           THEN [i \in 0 .. context.num_edges - 1 |-> 0]
                           ELSE context.edge_count,
            !.found_edges = 0,
            !.current_feedback_nexus = <<>>,
            !.previous_feedback_nexus = <<>>,
            !.turbofan_optimization_bits_current = 0,
            !.turbofan_optimization_bits_previous = 0]
    /\ cov_ret' = Ret("cov_reset_state", 0, <<>>)
    /\ UNCHANGED <<shm_num_edges, shm_bits, child_cov>>
    /\ UNCHANGED <<reprl_vars, rest_vars>>

\* after cov_initialize on a zeroed struct cov_context, before any child ran
InitCov ==
    /\ shm_num_edges = 0
    /\ shm_bits = {}
    /\ \E layout \in Layouts :
         child_cov = [started |-> FALSE, layout |-> layout,
                      guards |-> [k \in 1 .. NumGuards |-> 0]]
    /\ context = [phase |-> "initialized",
                  should_track_edges |-> FALSE,
                  virgin_bits |-> {},
                  crash_bits |-> {},
                  num_edges |-> 0,
                  bitmap_size |-> 0,
                  found_edges |-> 0,
                  edge_count |-> <<>>,
                  current_feedback_nexus |-> <<>>,
                  previous_feedback_nexus |-> <<>>,
                  turbofan_optimization_bits_current |-> 0,
                  turbofan_optimization_bits_previous |-> 0]
    /\ cov_ret = Ret("cov_initialize", 0, <<>>)

NextCov ==
    \/ sanitizer_cov_trace_pc_guard_init
    \/ \E g \in Hot : sanitizer_cov_trace_pc_guard(g)
    \/ sanitizer_cov_reset_edgeguards
    \/ \E t \in BOOLEAN : cov_finish_initialization(t)
    \/ cov_evaluate
    \/ cov_evaluate_crash
    \/ \E S \in SUBSET Hot : cov_compare_equal(SeqOfSet(S))
    \/ cov_clear_bitmap
    \/ \E index \in ClearIndices : cov_clear_edge_data(index)
    \/ cov_reset_state

\* ---------------------------------------------------------------------------
\* libreprl, POSIX build: the parent side of the REPRL protocol
\* (Sources/libreprl/libreprl.c) and a child speaking it
\* (Targets/njs/mod/njs_fuzzilli.c), with the ways a child can fail.
\* ---------------------------------------------------------------------------

\* Children one context may fork; fork fails (EAGAIN) once they are used up.
MaxSpawns == 2

\* System calls of the parent that the environment may fail (poll or read
\* interrupted by a signal).
MaxInterrupts == 1

\* Bytes of fuzzer output a child may print during one script.
MaxOut == 1

REPRL_MAX_DATA_SIZE == 16 * 1048576

SIGKILL == 9

SIGSEGV == 11

Pids == 1 .. MaxSpawns

\* Exit codes a child may pass to _exit.
ExitCodes == {0, 7}

\* Status words a child may write after a script: success, a word with both
\* low bytes set, and exit code 7 with all sixteen upper bits set, the
\* timeout bit among them (0xffff0700 as an int).
StatusWords == {0, 257, 1792 - 65536}

\* script_length arguments of reprl_execute.
ScriptLengths == {0, REPRL_MAX_DATA_SIZE, REPRL_MAX_DATA_SIZE + 1}

\* timeout arguments of reprl_execute (uint64_t microseconds), held as the
\* quotient timeout / 1000 split into a high part and a low 16 bit part:
\* 100 ms, and 40000 * 65536 ms (about 30 days).
Timeouts == {[ms_hi |-> 0, ms_lo |-> 100], [ms_hi |-> 40000, ms_lo |-> 0]}

\* int timeout_ms = timeout / 1000: the low 32 bits of the quotient, signed.
TimeoutMs(timeout) ==
    LET h == timeout.ms_hi % 65536
    IN  (IF h >= 32768 THEN h - 65536 ELSE h) * 65536 + timeout.ms_lo

HELO == <<72, 69, 76, 79>>

\* Four bytes that are not "HELO".
BadHelo == <<72, 69, 76, 80>>

\* The four bytes of an int in memory (little endian), for words >= 0.
StatusBytes(w) ==
    <<w % 256, (w \div 256) % 256, (w \div 65536) % 256, (w \div 16777216) % 256>>

\* StatusOf reading the four bytes in the opposite order
StatusOfSwapped(b) ==
    b[4] + b[3] * 256 + b[2] * 65536
         + (IF b[1] >= 128 THEN b[1] - 256 ELSE b[1]) * 16777216

\* The int that read(ctrl_in, &status, 4) leaves in status.
StatusOf(b) ==
    b[1] + b[2] * 256 + b[3] * 65536
         + (IF b[4] >= 128 THEN b[4] - 256 ELSE b[4]) * 16777216

\* The wait status the kernel reports for a dead process.
WaitStatus(how, val, core) ==
    IF how = "exit" THEN (val % 256) * 256
    ELSE val + (IF core THEN 128 ELSE 0)

WIFEXITED(s) == s % 128 = 0

WEXITSTATUS(s) == (s \div 256) % 256

WIFSIGNALED(s) == s % 128 # 0 /\ s % 128 # 127

WTERMSIG(s) == s % 128

NoProc ==
    [state |-> "unborn", at |-> "start", how |-> "exit", val |-> 0,
     core |-> FALSE, helo |-> FALSE, owed |-> 0]

\* Reaped with the process left running
ReapedStillRunning == [NoProc EXCEPT !.state = "running"]

\* A reaped process leaves nothing behind.
Reaped == [NoProc EXCEPT !.state = "reaped"]

NoPipe ==
    [cr |-> <<>>, cw |-> <<>>, p_in |-> FALSE, p_out |-> FALSE,
     c_in |-> FALSE, c_out |-> FALSE]

\* The arguments and locals of a call; entry_pid (the child the call may go on
\* using), spawned and killed (what the call has done so far) are history.
NoLoc ==
    [op |-> "none", script_length |-> 0, timeout |-> [ms_hi |-> 0, ms_lo |-> 0],
     rv |-> 0, err |-> "", after |-> "none",
     entry_pid |-> 0, spawned |-> FALSE, killed |-> 0]

\* While a call runs its caller holds no return value.
NoRet == [op |-> "none", value |-> 0]

WaitNoHangDying(pr) == pr.state \in {"zombie", "dying"}

\* waitpid(pid, &status, WNOHANG) == pid: only a zombie can be reaped.
WaitNoHang(pr) == pr.state = "zombie"

Alive(p) == procs[p].state = "running"

\* The pids not yet handed out by fork.
FreePids == {p \in Pids : procs[p].state = "unborn"}

MinOf(S) == CHOOSE x \in S : \A y \in S : x <= y

\* ---- the dying of a process ----

\* exit, a fatal signal or SIGKILL: the process stops running, wherever it was,
\* and the kernel closes its descriptors; what the parent wrote and nobody will
\* read is gone.
DieProc(pr, how, val, core) ==
    [NoProc EXCEPT !.state = "dying", !.how = how, !.val = val, !.core = core]

DiePipe(pi) == [pi EXCEPT !.c_in = FALSE, !.c_out = FALSE, !.cw = <<>>]

\* kill(pid, SIGKILL): no effect on a process that is already dead.
Kill(pr) == IF pr.state = "running" THEN DieProc(pr, "signal", SIGKILL, FALSE) ELSE pr

KillPipe(pr, pi) == IF pr.state = "running" THEN DiePipe(pi) ELSE pi

\* The kernel finishes the exit: the process becomes a zombie waitpid can reap.
KernelExit(p) ==
    /\ procs[p].state = "dying"
    /\ procs' = [procs EXCEPT ![p].state = "zombie"]
    /\ UNCHANGED <<reprl_ctx, pc, loc, pipes, chan, ret, interrupts>>
    /\ UNCHANGED <<cov_vars, rest_vars>>

\* ---- the child ----

\* write(REPRL_CWFD, helo, 4)
ChildWriteHelo(p, bytes) ==
    /\ Alive(p) /\ procs[p].at = "start" /\ pipes[p].c_out
    /\ pipes' = [pipes EXCEPT ![p].cr = @ \o bytes]
    /\ procs' = [procs EXCEPT ![p].at = "helo_sent"]
    /\ UNCHANGED <<reprl_ctx, pc, loc, chan, ret, interrupts>>
    /\ UNCHANGED <<cov_vars, rest_vars>>

\* A write that stops after two bytes, of the HELO or of the status; the child
\* then does nothing more on the pipe.
ChildWritePartial(p) ==
    /\ Alive(p) /\ procs[p].at \in {"start", "script"} /\ pipes[p].c_out
    /\ pipes' = [pipes EXCEPT ![p].cr = @ \o <<72, 69>>]
    /\ procs' = [procs EXCEPT ![p].at = "stuck"]
    /\ UNCHANGED <<reprl_ctx, pc, loc, chan, ret, interrupts>>
    /\ UNCHANGED <<cov_vars, rest_vars>>

\* read(REPRL_CRFD, helo, 4) and the memcmp
ChildReadHelo(p) ==
    /\ Alive(p) /\ procs[p].at = "helo_sent" /\ pipes[p].c_in
    /\ pipes[p].cw # <<>> /\ Head(pipes[p].cw).tag = "HELO"
    /\ pipes' = [pipes EXCEPT ![p].cw = Tail(@)]
    /\ procs' = [procs EXCEPT ![p].at = "wait_cmd"]
    /\ UNCHANGED <<reprl_ctx, pc, loc, chan, ret, interrupts>>
    /\ UNCHANGED <<cov_vars, rest_vars>>

\* njs_fetch_fuzz_input: read(REPRL_CRFD, &action, 4), action == 'cexe'
ChildReadAction(p) ==
    /\ Alive(p) /\ procs[p].at = "wait_cmd" /\ pipes[p].c_in
    /\ pipes[p].cw # <<>> /\ Head(pipes[p].cw).tag = "exec"
    /\ pipes' = [pipes EXCEPT ![p].cw = Tail(@)]
    /\ procs' = [procs EXCEPT ![p].at = "got_exec"]
    /\ UNCHANGED <<reprl_ctx, pc, loc, chan, ret, interrupts>>
    /\ UNCHANGED <<cov_vars, rest_vars>>

\* njs_fetch_fuzz_input: read(REPRL_CRFD, &script_size, 8), then the script is
\* read from REPRL_DRFD, which moves the file position the parent shares; a
\* read at the end of the file returns 0 and the child exits.
ChildReadScript(p) ==
    /\ Alive(p) /\ procs[p].at = "got_exec" /\ pipes[p].c_in
    /\ pipes[p].cw # <<>> /\ Head(pipes[p].cw).tag = "size"
    /\ LET n == Head(pipes[p].cw).n
           fits == chan.data_out_pos + n <= REPRL_MAX_DATA_SIZE
       IN  /\ chan' = [chan EXCEPT !.data_out_pos =
                          IF fits THEN @ + n ELSE REPRL_MAX_DATA_SIZE]
           /\ IF fits
              THEN /\ pipes' = [pipes EXCEPT ![p].cw = Tail(@)]
                   /\ procs' = [procs EXCEPT ![p].at = "script"]
              ELSE /\ pipes' = [pipes EXCEPT ![p] = DiePipe(@)]
                   /\ procs' = [procs EXCEPT ![p] = DieProc(@, "exit", 255, FALSE)]
    /\ UNCHANGED <<reprl_ctx, pc, loc, ret, interrupts>>
    /\ UNCHANGED <<cov_vars, rest_vars>>

\* fuzzilli('FUZZILLI_PRINT', ...): a write to REPRL_DWFD
ChildPrint(p) ==
    /\ Alive(p) /\ procs[p].at = "script"
    /\ chan.data_in_pos < MaxOut
    /\ chan' = [chan EXCEPT !.data_in_pos = @ + 1]
    /\ UNCHANGED <<reprl_ctx, pc, loc, procs, pipes, ret, interrupts>>
    /\ UNCHANGED <<cov_vars, rest_vars>>

\* write(REPRL_CWFD, &status, 4) at the end of a script
ChildWriteStatus(p, w) ==
    /\ Alive(p) /\ procs[p].at = "script" /\ pipes[p].c_out
    /\ pipes' = [pipes EXCEPT ![p].cr = @ \o StatusBytes(w)]
    /\ procs' = [procs EXCEPT ![p].at = "wait_cmd"]
    /\ UNCHANGED <<reprl_ctx, pc, loc, chan, ret, interrupts>>
    /\ UNCHANGED <<cov_vars, rest_vars>>

\* _exit(code), at any point
ChildExit(p, code) ==
    /\ Alive(p)
    /\ procs' = [procs EXCEPT ![p] = DieProc(@, "exit", code, FALSE)]
    /\ pipes' = [pipes EXCEPT ![p] = DiePipe(@)]
    /\ UNCHANGED <<reprl_ctx, pc, loc, chan, ret, interrupts>>
    /\ UNCHANGED <<cov_vars, rest_vars>>

\* fuzzilli('FUZZILLI_CRASH', 0): a fatal signal with a core dump
ChildCrash(p) ==
    /\ Alive(p)
    /\ procs' = [procs EXCEPT ![p] = DieProc(@, "signal", SIGSEGV, TRUE)]
    /\ pipes' = [pipes EXCEPT ![p] = DiePipe(@)]
    /\ UNCHANGED <<reprl_ctx, pc, loc, chan, ret, interrupts>>
    /\ UNCHANGED <<cov_vars, rest_vars>>

\* The child closes its end of the status pipe and lives on.
ChildClosePipe(p) ==
    /\ Alive(p) /\ pipes[p].c_out
    /\ pipes' = [pipes EXCEPT ![p].c_out = FALSE]
    /\ UNCHANGED <<reprl_ctx, pc, loc, procs, chan, ret, interrupts>>
    /\ UNCHANGED <<cov_vars, rest_vars>>

\* ---- the parent ----

\* The return of a call: the value goes to the caller, the locals are gone.
Return(op, value) ==
    /\ ret' = [op |-> op, value |-> value]
    /\ pc' = "idle"
    /\ loc' = NoLoc

\* reprl_error: a message is stored (its text is not kept here) and -1 is the
\* value to return.
\* reprl_error that also resets the context
reprl_errorResets(c, message) == [c EXCEPT !.last_error = "error", !.initialized = 0, !.pid = 0]

reprl_error(c, message) == [c EXCEPT !.last_error = "error"]

reprl_child_terminatedKeepPid(c) == c

\* reprl_child_terminated, the context: pid = 0.
reprl_child_terminated(c) == [c EXCEPT !.pid = 0]

\* ClosePipes with the close(ctrl_out) left out
ClosePipesKeepOut(c, pp) ==
    IF c.pid = 0 THEN pp
    ELSE [k \in Pids |->
            [pp[k] EXCEPT
               !.p_in  = IF k = c.ctrl_in  THEN FALSE ELSE @,
               !.cr    = IF k = c.ctrl_in  THEN <<>>  ELSE @]]

\* reprl_child_terminated, the descriptors: close(ctrl_in), close(ctrl_out).
\* Nothing can be read from a pipe whose read end is gone.
ClosePipes(c, pp) ==
    IF c.pid = 0 THEN pp
    ELSE [k \in Pids |->
            [pp[k] EXCEPT
               !.p_in  = IF k = c.ctrl_in  THEN FALSE ELSE @,
               !.cr    = IF k = c.ctrl_in  THEN <<>>  ELSE @,
               !.p_out = IF k = c.ctrl_out THEN FALSE ELSE @]]

\* reprl_terminate_child is entered with a child recorded: kill and waitpid
\* follow, and then the caller does what is recorded in rv, err and after.
Terminate(after, rv, err) ==
    /\ pc' = "kill"
    /\ loc' = [loc EXCEPT !.rv = rv, !.err = err, !.after = after]

\* reprl_terminate_child: kill(ctx->pid, SIGKILL)
reprl_terminate_child_kill ==
    /\ pc = "kill"
    /\ procs' = [procs EXCEPT ![reprl_ctx.pid] = Kill(@)]
    /\ pipes' = [pipes EXCEPT ![reprl_ctx.pid] = KillPipe(procs[reprl_ctx.pid], @)]
    /\ loc' = [loc EXCEPT !.killed = reprl_ctx.pid]
    /\ pc' = "waitpid"
    /\ UNCHANGED <<reprl_ctx, chan, ret, interrupts>>
    /\ UNCHANGED <<cov_vars, rest_vars>>

\* What follows reprl_terminate_child in its callers: the rest of reprl_execute,
\* an error return, the timeout return, or the frees of reprl_destroy_context.
AfterTerminate(c) ==
    CASE loc.after = "lseek"  -> /\ reprl_ctx' = c
                                 /\ pc' = "lseek"
                                 /\ loc' = [loc EXCEPT !.after = "none"]
                                 /\ UNCHANGED ret
      [] loc.after = "error"  -> /\ reprl_ctx' = reprl_error(c, loc.err)
                                 /\ Return(loc.op, -1)
      [] loc.after = "status" -> /\ reprl_ctx' = c
                                 /\ Return(loc.op, loc.rv)
      [] loc.after = "free"   -> /\ reprl_ctx' = [c EXCEPT !.freed = TRUE, !.last_error = ""]
                                 /\ Return(loc.op, 0)

\* reprl_terminate_child with a waitpid that reaps nothing
reprl_terminate_child_waitNoReap ==
    /\ pc = "waitpid"
    /\ pipes' = ClosePipes(reprl_ctx, pipes)
    /\ AfterTerminate(reprl_child_terminated(reprl_ctx))
    /\ UNCHANGED <<procs, chan, interrupts>>
    /\ UNCHANGED <<cov_vars, rest_vars>>

\* reprl_terminate_child: waitpid(ctx->pid, &status, 0) blocks until the child
\* is a zombie and reaps it; then reprl_child_terminated.
reprl_terminate_child_wait ==
    /\ pc = "waitpid"
    /\ procs[reprl_ctx.pid].state = "zombie"
    /\ procs' = [procs EXCEPT ![reprl_ctx.pid] = Reaped]
    /\ pipes' = ClosePipes(reprl_ctx, pipes)
    /\ AfterTerminate(reprl_child_terminated(reprl_ctx))
    /\ UNCHANGED <<chan, interrupts>>
    /\ UNCHANGED <<cov_vars, rest_vars>>

\* reprl_initialize_context; a data channel may fail to be created.
reprl_initialize_context(channels_ok) ==
    /\ pc = "idle" /\ ~reprl_ctx.freed
    /\ IF reprl_ctx.initialized = 1
       THEN reprl_ctx' = reprl_error(reprl_ctx, "Context is already initialized")
       ELSE IF ~channels_ok
       THEN reprl_ctx' = reprl_error(reprl_ctx, "Failed to create data channel file")
       ELSE reprl_ctx' = [reprl_ctx EXCEPT !.initialized = 1]
    /\ Return("reprl_initialize_context",
              IF reprl_ctx.initialized = 0 /\ channels_ok THEN 0 ELSE -1)
    /\ UNCHANGED <<procs, pipes, chan, interrupts>>
    /\ UNCHANGED <<cov_vars, rest_vars>>

\* reprl_destroy_context
reprl_destroy_context ==
    /\ pc = "idle" /\ ~reprl_ctx.freed
    /\ IF reprl_ctx.pid = 0
       THEN /\ reprl_ctx' = [reprl_ctx EXCEPT !.freed = TRUE, !.last_error = ""]
            /\ Return("reprl_destroy_context", 0)
       ELSE /\ pc' = "kill"
            /\ loc' = [NoLoc EXCEPT !.op = "reprl_destroy_context", !.after = "free"]
            /\ ret' = NoRet
            /\ UNCHANGED reprl_ctx
    /\ UNCHANGED <<procs, pipes, chan, interrupts>>
    /\ UNCHANGED <<cov_vars, rest_vars>>

ScriptTooLargeInclusive(script_length) == script_length >= REPRL_MAX_DATA_SIZE

\* script_length > REPRL_MAX_DATA_SIZE
ScriptTooLarge(script_length) == script_length > REPRL_MAX_DATA_SIZE

\* reprl_execute up to its first system call: the two checks, and whether an
\* existing child is to be terminated first.
reprl_execute(script_length, timeout, fresh_instance) ==
    /\ pc = "idle" /\ ~reprl_ctx.freed
    /\ IF reprl_ctx.initialized = 0
       THEN /\ reprl_ctx' = reprl_error(reprl_ctx, "REPRL context is not initialized")
            /\ Return("reprl_execute", -1)
       ELSE IF ScriptTooLarge(script_length)
       THEN /\ reprl_ctx' = reprl_error(reprl_ctx, "Script too large")
            /\ Return("reprl_execute", -1)
       ELSE /\ loc' = [NoLoc EXCEPT !.op = "reprl_execute",
                                    !.script_length = script_length,
                                    !.timeout = timeout,
                                    !.entry_pid = IF fresh_instance THEN 0
                                                  ELSE reprl_ctx.pid,
                                    !.after = IF fresh_instance /\ reprl_ctx.pid # 0
                                              THEN "lseek" ELSE "none"]
            /\ pc' = IF fresh_instance /\ reprl_ctx.pid # 0 THEN "kill" ELSE "lseek"
            /\ ret' = NoRet
            /\ UNCHANGED reprl_ctx
    /\ UNCHANGED <<procs, pipes, chan, interrupts>>
    /\ UNCHANGED <<cov_vars, rest_vars>>

\* lseek(..., 0, SEEK_SET) on the data channels
reprl_execute_lseek ==
    /\ pc = "lseek"
    /\ chan' = [chan EXCEPT !.data_out_pos = 0, !.data_in_pos = 0]
    /\ pc' = IF reprl_ctx.pid = 0 THEN "spawn" ELSE "memcpy"
    /\ UNCHANGED <<reprl_ctx, loc, procs, pipes, ret, interrupts>>
    /\ UNCHANGED <<cov_vars, rest_vars>>

\* reprl_spawn_child up to the read of the HELO: pipe, pipe, (v)fork, and the
\* closing of the child's ends. outcome is what the system calls do.
reprl_spawn_child(outcome) ==
    /\ pc = "spawn"
    /\ outcome = "forked" => FreePids # {}
    /\ CASE outcome = "pipe_failed" ->
              /\ reprl_ctx' = reprl_error(reprl_ctx, "Could not create pipe for REPRL communication")
              /\ Return(loc.op, -1)
              /\ UNCHANGED <<procs, pipes>>
         [] outcome = "fork_failed" ->
              \* ctrl_in and ctrl_out hold the numbers of descriptors closed again (0 here)
              /\ reprl_ctx' = reprl_error([reprl_ctx EXCEPT !.ctrl_in = 0, !.ctrl_out = 0],
                                    "Failed to fork")
              /\ Return(loc.op, -1)
              /\ UNCHANGED <<procs, pipes>>
         [] outcome = "forked" ->
              LET p == MinOf(FreePids)
              IN  /\ reprl_ctx' = [reprl_ctx EXCEPT !.pid = p, !.ctrl_in = p, !.ctrl_out = p]
                  /\ procs' = [procs EXCEPT ![p] = [NoProc EXCEPT !.state = "running"]]
                  /\ pipes' = [pipes EXCEPT ![p] =
                                 [NoPipe EXCEPT !.p_in = TRUE, !.p_out = TRUE,
                                                !.c_in = TRUE, !.c_out = TRUE]]
                  /\ loc' = [loc EXCEPT !.spawned = TRUE]
                  /\ pc' = "read_helo"
                  /\ UNCHANGED ret
    /\ UNCHANGED <<chan, interrupts>>
    /\ UNCHANGED <<cov_vars, rest_vars>>

\* What read(fd, buf, 4) on the pipe returns: up to four bytes, or nothing at
\* the end of the stream.
ReadFour(pi) == SubSeq(pi.cr, 1, Min(4, Len(pi.cr)))

\* read blocks on an empty pipe that still has a writer.
Readable(pi) == pi.cr # <<>> \/ ~pi.c_out

Consume(pi) == [pi EXCEPT !.cr = SubSeq(@, Min(4, Len(@)) + 1, Len(@))]

\* read(ctrl_in, helo, 4) with any four bytes taken for the greeting
reprl_spawn_child_read_heloAnyFour ==
    /\ pc = "read_helo"
    /\ Readable(pipes[reprl_ctx.ctrl_in])
    /\ pipes' = [pipes EXCEPT ![reprl_ctx.ctrl_in] = Consume(@)]
    /\ LET helo == ReadFour(pipes[reprl_ctx.ctrl_in])
       IN  IF Len(helo) # 4
           THEN Terminate("error", -1, "Did not receive HELO message from child")
           ELSE /\ pc' = "write_helo"
                /\ UNCHANGED loc
    /\ UNCHANGED <<reprl_ctx, procs, chan, ret, interrupts>>
    /\ UNCHANGED <<cov_vars, rest_vars>>

\* reprl_spawn_child: read(ctrl_in, helo, 4) and the strncmp with "HELO"
reprl_spawn_child_read_helo ==
    /\ pc = "read_helo"
    /\ Readable(pipes[reprl_ctx.ctrl_in])
    /\ pipes' = [pipes EXCEPT ![reprl_ctx.ctrl_in] = Consume(@)]
    /\ LET helo == ReadFour(pipes[reprl_ctx.ctrl_in])
       IN  IF Len(helo) # 4
           THEN Terminate("error", -1, "Did not receive HELO message from child")
           ELSE IF helo # HELO
           THEN Terminate("error", -1, "Received invalid HELO message from child")
           ELSE /\ pc' = "write_helo"
                /\ UNCHANGED loc
    /\ UNCHANGED <<reprl_ctx, procs, chan, ret, interrupts>>
    /\ UNCHANGED <<cov_vars, rest_vars>>

\* write on a pipe fails (EPIPE, SIGPIPE is ignored) when nobody can read it.
Writable(pi) == pi.p_out /\ pi.c_in

\* reprl_spawn_child: write(ctrl_out, helo, 4)
reprl_spawn_child_write_helo ==
    /\ pc = "write_helo"
    /\ IF Writable(pipes[reprl_ctx.ctrl_out])
       THEN /\ pipes' = [pipes EXCEPT ![reprl_ctx.ctrl_out].cw = Append(@, [tag |-> "HELO", n |-> 0])]
            /\ procs' = [procs EXCEPT ![reprl_ctx.pid].helo = TRUE]
            /\ pc' = "memcpy"
            /\ UNCHANGED loc
       ELSE /\ Terminate("error", -1, "Failed to send HELO reply message to child")
            /\ UNCHANGED <<pipes, procs>>
    /\ UNCHANGED <<reprl_ctx, chan, ret, interrupts>>
    /\ UNCHANGED <<cov_vars, rest_vars>>

\* memcpy(ctx->data_out->mapping, script, script_length)
reprl_execute_memcpy ==
    /\ pc = "memcpy"
    /\ chan' = [chan EXCEPT !.script_len = loc.script_length]
    /\ pc' = "write_exec"
    /\ UNCHANGED <<reprl_ctx, loc, procs, pipes, ret, interrupts>>
    /\ UNCHANGED <<cov_vars, rest_vars>>

\* write(ctrl_out, "exec", 4)
reprl_execute_write_exec ==
    /\ pc = "write_exec"
    /\ IF Writable(pipes[reprl_ctx.ctrl_out])
       THEN /\ pipes' = [pipes EXCEPT ![reprl_ctx.ctrl_out].cw = Append(@, [tag |-> "exec", n |-> 0])]
            /\ procs' = [procs EXCEPT ![reprl_ctx.pid].owed = @ + 1]
            /\ pc' = "write_size"
       ELSE /\ pc' = "write_failed"
            /\ UNCHANGED <<pipes, procs>>
    /\ UNCHANGED <<reprl_ctx, loc, chan, ret, interrupts>>
    /\ UNCHANGED <<cov_vars, rest_vars>>

\* write(ctrl_out, &script_length, 8)
reprl_execute_write_size ==
    /\ pc = "write_size"
    /\ IF Writable(pipes[reprl_ctx.ctrl_out])
       THEN /\ pipes' = [pipes EXCEPT ![reprl_ctx.ctrl_out].cw =
                           Append(@, [tag |-> "size", n |-> loc.script_length])]
            /\ pc' = "poll"
       ELSE /\ pc' = "write_failed"
            /\ UNCHANGED pipes
    /\ UNCHANGED <<reprl_ctx, loc, procs, chan, ret, interrupts>>
    /\ UNCHANGED <<cov_vars, rest_vars>>

\* A write failed: waitpid(ctx->pid, &status, WNOHANG) tells whether the child
\* is gone; if it is not (yet) a zombie the child stays recorded.
reprl_execute_write_failed ==
    /\ pc = "write_failed"
    /\ IF WaitNoHang(procs[reprl_ctx.pid])
       THEN /\ procs' = [procs EXCEPT ![reprl_ctx.pid] = Reaped]
            /\ pipes' = ClosePipes(reprl_ctx, pipes)
            /\ reprl_ctx' = reprl_error(reprl_child_terminated(reprl_ctx),
                          IF WIFEXITED(WaitStatus(procs[reprl_ctx.pid].how, procs[reprl_ctx.pid].val,
                                                  procs[reprl_ctx.pid].core))
                          THEN "Child unexpectedly exited between executions"
                          ELSE "Child unexpectedly terminated with signal between executions")
       ELSE /\ reprl_ctx' = reprl_error(reprl_ctx, "Failed to send command to child process")
            /\ UNCHANGED <<procs, pipes>>
    /\ Return(loc.op, -1)
    /\ UNCHANGED <<chan, interrupts>>
    /\ UNCHANGED <<cov_vars, rest_vars>>

\* poll(&fds, 1, timeout_ms) returns 1: there is something to read, or the
\* write end is closed.
reprl_execute_poll_ready ==
    /\ pc = "poll"
    /\ Readable(pipes[reprl_ctx.ctrl_in])
    /\ pc' = "read_status"
    /\ UNCHANGED <<reprl_ctx, loc, procs, pipes, chan, ret, interrupts>>
    /\ UNCHANGED <<cov_vars, rest_vars>>

\* poll returns 0 after timeout_ms, which a negative timeout_ms never lets
\* happen: reprl_terminate_child, and 1 << 16 is returned.
reprl_execute_poll_timeout ==
    /\ pc = "poll"
    /\ ~Readable(pipes[reprl_ctx.ctrl_in])
    /\ TimeoutMs(loc.timeout) >= 0
    /\ Terminate("status", 65536, "")
    /\ UNCHANGED <<reprl_ctx, procs, pipes, chan, ret, interrupts>>
    /\ UNCHANGED <<cov_vars, rest_vars>>

\* poll returns -1 (EINTR: poll is not restarted after a signal handler).
reprl_execute_poll_error ==
    /\ pc = "poll"
    /\ interrupts < MaxInterrupts
    /\ interrupts' = interrupts + 1
    /\ reprl_ctx' = reprl_error(reprl_ctx, "Failed to poll")
    /\ Return(loc.op, -1)
    /\ UNCHANGED <<procs, pipes, chan>>
    /\ UNCHANGED <<cov_vars, rest_vars>>

\* read(ctrl_in, &status, 4) returns -1.
reprl_execute_read_error ==
    /\ pc = "read_status"
    /\ interrupts < MaxInterrupts
    /\ interrupts' = interrupts + 1
    /\ reprl_ctx' = reprl_error(reprl_ctx, "Failed to read from control pipe")
    /\ Return(loc.op, -1)
    /\ UNCHANGED <<procs, pipes, chan>>
    /\ UNCHANGED <<cov_vars, rest_vars>>

MaskStatusKeepAll(status) == status

\* status &= 0xffff
MaskStatus(status) == status % 65536

\* read(ctrl_in, &status, 4): four bytes are the status the child reports;
\* fewer start the waitpid loop.
reprl_execute_read_status ==
    /\ pc = "read_status"
    /\ Readable(pipes[reprl_ctx.ctrl_in])
    /\ pipes' = [pipes EXCEPT ![reprl_ctx.ctrl_in] = Consume(@)]
    /\ LET b == ReadFour(pipes[reprl_ctx.ctrl_in])
       IN  IF Len(b) = 4
           THEN /\ procs' = [procs EXCEPT ![reprl_ctx.pid].owed = IF @ > 0 THEN @ - 1 ELSE 0]
                /\ Return(loc.op, MaskStatus(StatusOf(b)))
           ELSE /\ pc' = "waitpid_loop"
                /\ UNCHANGED <<procs, loc, ret>>
    /\ UNCHANGED <<reprl_ctx, chan, interrupts>>
    /\ UNCHANGED <<cov_vars, rest_vars>>

DecodeWaitStatusExitLow(s) == IF WIFEXITED(s) THEN WEXITSTATUS(s) ELSE WTERMSIG(s)

\* WIFEXITED: WEXITSTATUS(status) << 8; WIFSIGNALED: WTERMSIG(status)
DecodeWaitStatus(s) == IF WIFEXITED(s) THEN WEXITSTATUS(s) * 256 ELSE WTERMSIG(s)

\* The waitpid loop finds the zombie: waitpid(ctx->pid, &status, WNOHANG)
\* returns the pid, reprl_child_terminated, and the wait status is decoded.
reprl_execute_waitpid_success ==
    /\ pc = "waitpid_loop"
    /\ WaitNoHang(procs[reprl_ctx.pid])
    /\ procs' = [procs EXCEPT ![reprl_ctx.pid] = Reaped]
    /\ pipes' = ClosePipes(reprl_ctx, pipes)
    /\ LET status == WaitStatus(procs[reprl_ctx.pid].how, procs[reprl_ctx.pid].val, procs[reprl_ctx.pid].core)
       IN  IF WIFEXITED(status) \/ WIFSIGNALED(status)
           THEN /\ reprl_ctx' = reprl_child_terminated(reprl_ctx)
                /\ Return(loc.op, MaskStatus(DecodeWaitStatus(status)))
           ELSE /\ reprl_ctx' = reprl_error(reprl_child_terminated(reprl_ctx),
                                      "Waitpid returned unexpected child state")
                /\ Return(loc.op, -1)
    /\ UNCHANGED <<chan, interrupts>>
    /\ UNCHANGED <<cov_vars, rest_vars>>

\* The waitpid loop runs out of time (current_usecs() - start_time >= timeout)
\* with the last waitpid not returning the pid: reprl_terminate_child, error.
reprl_execute_waitpid_expired ==
    /\ pc = "waitpid_loop"
    /\ ~WaitNoHang(procs[reprl_ctx.pid])
    /\ Terminate("error", -1, "Child in weird state after execution")
    /\ UNCHANGED <<reprl_ctx, procs, pipes, chan, ret, interrupts>>
    /\ UNCHANGED <<cov_vars, rest_vars>>

\* reprl_fetch_fuzzout: fetch_data_channel_content(ctx->data_in). The string
\* returned ends at the file position of the channel (a NUL is written there,
\* into content this model does not hold); its length is the value recorded.
\* Without a channel the empty string is returned.
reprl_fetch_fuzzout ==
    /\ pc = "idle" /\ ~reprl_ctx.freed
    /\ ret' = [op |-> "reprl_fetch_fuzzout",
               value |-> IF reprl_ctx.initialized = 1
                         THEN Min(chan.data_in_pos, REPRL_MAX_DATA_SIZE - 1)
                         ELSE 0]
    /\ UNCHANGED <<reprl_ctx, pc, loc, procs, pipes, chan, interrupts>>
    /\ UNCHANGED <<cov_vars, rest_vars>>

\* After reprl_create_context: calloc gives a zeroed context.
InitReprl ==
    /\ reprl_ctx = [initialized |-> 0, pid |-> 0, ctrl_in |-> 0, ctrl_out |-> 0,
              last_error |-> "", freed |-> FALSE]
    /\ pc = "idle"
    /\ loc = NoLoc
    /\ procs = [p \in Pids |-> NoProc]
    /\ pipes = [p \in Pids |-> NoPipe]
    /\ chan = [data_out_pos |-> 0, data_in_pos |-> 0, script_len |-> 0]
    /\ ret = NoRet
    /\ interrupts = 0

\* The steps of the parent inside a call.
ParentStep ==
    \/ reprl_terminate_child_kill
    \/ reprl_terminate_child_wait
    \/ reprl_execute_lseek
    \/ \E outcome \in {"pipe_failed", "fork_failed", "forked"} : reprl_spawn_child(outcome)
    \/ reprl_spawn_child_read_helo
    \/ reprl_spawn_child_write_helo
    \/ reprl_execute_memcpy
    \/ reprl_execute_write_exec
    \/ reprl_execute_write_size
    \/ reprl_execute_write_failed
    \/ reprl_execute_poll_ready
    \/ reprl_execute_poll_timeout
    \/ reprl_execute_poll_error
    \/ reprl_execute_read_error
    \/ reprl_execute_read_status
    \/ reprl_execute_waitpid_success
    \/ reprl_execute_waitpid_expired

\* The calls of the library's user.
ParentCall ==
    \/ \E channels_ok \in BOOLEAN : reprl_initialize_context(channels_ok)
    \/ \E script_length \in ScriptLengths, timeout \in Timeouts, fresh_instance \in BOOLEAN :
          reprl_execute(script_length, timeout, fresh_instance)
    \/ reprl_fetch_fuzzout
    \/ reprl_destroy_context

ChildStep ==
    \E p \in Pids :
        \/ \E bytes \in {HELO, BadHelo} : ChildWriteHelo(p, bytes)
        \/ ChildWritePartial(p)
        \/ ChildReadHelo(p)
        \/ ChildReadAction(p)
        \/ ChildReadScript(p)
        \/ ChildPrint(p)
        \/ \E w \in StatusWords : ChildWriteStatus(p, w)
        \/ \E code \in ExitCodes : ChildExit(p, code)
        \/ ChildCrash(p)
        \/ ChildClosePipe(p)

KernelStep == \E p \in Pids : KernelExit(p)

NextReprl == ParentCall \/ ParentStep \/ ChildStep \/ KernelStep

\* ---------------------------------------------------------------------------
\* cov_finish_initialization over the whole range of num_edges.  SpecCov holds
\* its bitmaps bit by bit and so runs on small modules only; here the child
\* writes any 32-bit num_edges and only the sizes the call computes are kept.
\* ---------------------------------------------------------------------------

\* The small values of num_edges that are tried.
MaxProbe == 48

\* The largest num_edges for which the bitmap still ends inside the region.
LastFitting == (SHM_SIZE - EdgesOffset) * 8 - 1

\* The values of shmem->num_edges a child may leave: small ones, the ones
\* around the limits, and the ends of the uint32_t range (0x7fffffff,
\* 0x80000000, 0xfffffffe, 0xffffffff).
NumEdgesProbes ==
    (0 .. MaxProbe)
    \cup {LastFitting - 1, LastFitting, LastFitting + 1}
    \cup {MAX_EDGES - 2, MAX_EDGES - 1, MAX_EDGES, MAX_EDGES + 1}
    \cup {INT32_MAX, INT32_MIN, -2, -1}

\* The child's guard-init callback stores the number of guards.
sizing_write_num_edges(written) ==
    /\ sizing.phase = "mapped"
    /\ sizing' = [sizing EXCEPT !.phase = "initialized", !.written = written]
    /\ UNCHANGED <<cov_vars, reprl_vars, beside_sizing>>

\* cov_finish_initialization, the sizes only: the checks, num_edges and
\* bitmap_size, and whether virgin_bits and crash_bits were allocated.
sizing_finish_initialization ==
    /\ sizing.phase = "initialized"
    /\ LET num_edges == Inc32(sizing.written) IN
       IF FinishFailure(sizing.written) # "none"
       THEN sizing' = [sizing EXCEPT !.phase = "exited",
                                     !.failure = FinishFailure(sizing.written)]
       ELSE sizing' = [sizing EXCEPT !.phase = "ready",
                                     !.num_edges = num_edges,
                                     !.bitmap_size = BitmapSize(num_edges),
                                     !.allocated = TRUE]
    /\ UNCHANGED <<cov_vars, reprl_vars, beside_sizing>>

\* after cov_initialize: the region is mapped, num_edges is still 0
InitSizes ==
    sizing = [phase |-> "mapped", written |-> 0, failure |-> "none",
              num_edges |-> 0, bitmap_size |-> 0, allocated |-> FALSE]

NextSizes ==
    \/ \E written \in NumEdgesProbes : sizing_write_num_edges(written)
    \/ sizing_finish_initialization


\* ---------------------------------------------------------------------------
\* Descriptor tables.  A table gives, for each open descriptor number, the
\* open file it refers to and its close-on-exec flag.  The fuzzer process
\* creates REPRL contexts and forkservers; each child's table is the one it
\* has when it calls execve.  The handshakes that follow a spawn move no
\* descriptor and are part of SpecReprl.
\* ---------------------------------------------------------------------------

\* How many REPRL contexts and forkservers the process creates in all.
MaxOwners == 2

\* the descriptors a REPRL child expects
REPRL_CHILD_CTRL_IN == 100
REPRL_CHILD_CTRL_OUT == 101
REPRL_CHILD_DATA_IN == 102
REPRL_CHILD_DATA_OUT == 103

\* the forkserver's first well-known descriptor
FD == 137

\* a channel pointer that is NULL
NoFd == 0 - 1

\* The numbers of descriptors (0, 1, 2, ...) the process has open when it
\* first uses the libraries: the standard three, or so many that the next
\* free number is the first well-known one.
OpenAtStart == {3, REPRL_CHILD_CTRL_IN}

DevNull == [kind |-> "devnull", owner |-> 0, name |-> "", end |-> "rw"]
Inherited(n) == [kind |-> "inherited", owner |-> n, name |-> "", end |-> "rw"]
MemFd(i, name) == [kind |-> "memfd", owner |-> i, name |-> name, end |-> "rw"]
ReprlPipe(i, name, e) == [kind |-> "reprl pipe", owner |-> i, name |-> name, end |-> e]
ServerPipe(i, name, e) == [kind |-> "forkserver pipe", owner |-> i, name |-> name, end |-> e]

\* A table is held as the number low of descriptors 0 .. low - 1 that the
\* process started with, and the function m of the descriptors opened or
\* replaced since.
IsOpen(t, fd) == fd \in DOMAIN t.m \/ fd \in 0 .. t.low - 1

Entry(t, fd) ==
    IF fd \in DOMAIN t.m THEN t.m[fd]
    ELSE [file |-> Inherited(fd), cloexec |-> FALSE]

OpenFds(t) == DOMAIN t.m \cup (0 .. t.low - 1)

RECURSIVE LowestFreeFrom(_, _)
LowestFreeFrom(t, n) == IF IsOpen(t, n) THEN LowestFreeFrom(t, n + 1) ELSE n

\* open(), pipe(), memfd_create(): the lowest descriptor number not in use
LowestFree(t) == LowestFreeFrom(t, t.low)

\* the k lowest descriptor numbers not in use, in ascending order
RECURSIVE LowestFreeSeq(_, _, _)
LowestFreeSeq(t, n, k) ==
    IF k = 0 THEN <<>>
    ELSE LET fd == LowestFreeFrom(t, n)
         IN <<fd>> \o LowestFreeSeq(t, fd + 1, k - 1)

\* pipe(): the read end takes the lowest free number, the write end the next
Pipe(t, read_end, write_end) ==
    LET p == LowestFreeSeq(t, t.low, 2)
    IN [t EXCEPT !.m = [n \in DOMAIN t.m \cup {p[1], p[2]} |->
                          IF n = p[1] THEN [file |-> read_end, cloexec |-> FALSE]
                          ELSE IF n = p[2] THEN [file |-> write_end, cloexec |-> FALSE]
                          ELSE t.m[n]]]

OpenAt(t, fd, file, cloexec) ==
    [t EXCEPT !.m = [n \in DOMAIN t.m \cup {fd} |->
                        IF n = fd THEN [file |-> file, cloexec |-> cloexec]
                        ELSE t.m[n]]]

\* dup2(oldfd, newfd): fails on a closed oldfd, does nothing when both are
\* the same, else newfd is silently closed first and the copy has no
\* close-on-exec flag
Dup2Fails(t, oldfd) == ~IsOpen(t, oldfd)

Dup2(t, oldfd, newfd) ==
    IF Dup2Fails(t, oldfd) \/ oldfd = newfd THEN t
    ELSE OpenAt(t, newfd, Entry(t, oldfd).file, FALSE)

\* the descriptors in keep stay open
KeepOnly(t, keep) ==
    [low |-> 0, m |-> [n \in OpenFds(t) \cap keep |-> Entry(t, n)]]

Close(t, fd) ==
    IF fd \in 0 .. t.low - 1 THEN KeepOnly(t, OpenFds(t) \ {fd})
    ELSE [t EXCEPT !.m = [n \in DOMAIN t.m \ {fd} |-> t.m[n]]]

\* fcntl(fd, F_SETFD, FD_CLOEXEC)
SetCloExec(t, fd) ==
    IF IsOpen(t, fd) THEN OpenAt(t, fd, Entry(t, fd).file, TRUE) ELSE t

\* execve closes the descriptors that have the close-on-exec flag
Execve(t) ==
    [t EXCEPT !.m = [n \in {k \in DOMAIN t.m : ~t.m[k].cloexec} |-> t.m[n]]]

\* int devnull = open("/dev/null", O_RDWR); dup2(devnull, first) ...
\* dup2(devnull, first + count - 1); close(devnull)
RECURSIVE Dup2Onto(_, _, _, _)
Dup2Onto(t, oldfd, first, count) ==
    IF count = 0 THEN t
    ELSE Dup2(Dup2Onto(t, oldfd, first, count - 1), oldfd, first + count - 1)

ReserveFds(t, first, count) ==
    LET devnull == LowestFree(t)
    IN Close(Dup2Onto(OpenAt(t, devnull, DevNull, FALSE), devnull, first, count),
             devnull)

\* the child of reprl_spawn_child between fork and execve; c is the context,
\* t the table at fork, crpipe and cwpipe the two pipes
ReprlChildDup2Fails(c, t, crpipe, cwpipe) ==
    LET t1 == Dup2(t, cwpipe[1], REPRL_CHILD_CTRL_IN)
        t2 == Dup2(t1, crpipe[2], REPRL_CHILD_CTRL_OUT)
        t3 == Dup2(t2, c.data_out, REPRL_CHILD_DATA_IN)
    IN \/ Dup2Fails(t, cwpipe[1])
       \/ Dup2Fails(t1, crpipe[2])
       \/ Dup2Fails(t2, c.data_out)
       \/ Dup2Fails(t3, c.data_in)

ReprlChildFds(c, t, crpipe, cwpipe) ==
    LET t1 == Dup2(t, cwpipe[1], REPRL_CHILD_CTRL_IN)
        t2 == Dup2(t1, crpipe[2], REPRL_CHILD_CTRL_OUT)
        t3 == Dup2(t2, c.data_out, REPRL_CHILD_DATA_IN)
        t4 == Dup2(t3, c.data_in, REPRL_CHILD_DATA_OUT)
        t5 == Close(Close(t4, cwpipe[1]), crpipe[2])
        devnull == LowestFree(t5)
        t6 == Dup2(OpenAt(t5, devnull, DevNull, FALSE), devnull, 0)
        t7 == IF c.child_stdout # NoFd THEN Dup2(t6, c.child_stdout, 1)
              ELSE Dup2(t6, devnull, 1)
        t8 == IF c.child_stderr # NoFd THEN Dup2(t7, c.child_stderr, 2)
              ELSE Dup2(t7, devnull, 2)
        t9 == Close(t8, devnull)
    IN Execve(KeepOnly(t9, (0 .. 2) \cup {REPRL_CHILD_CTRL_IN, REPRL_CHILD_CTRL_OUT,
                                         REPRL_CHILD_DATA_IN, REPRL_CHILD_DATA_OUT}))

\* the child of spinup_forkserver between fork and execve
ForkserverChildFds(t, rpipe, wpipe, outpipe) ==
    LET t1 == Close(Close(Close(t, wpipe[2]), rpipe[1]), outpipe[1])
        t2 == Dup2(t1, wpipe[1], FD)
        t3 == Dup2(t2, rpipe[2], FD + 1)
        t4 == Dup2(t3, outpipe[2], FD + 2)
        t5 == Close(Close(Close(t4, wpipe[1]), rpipe[2]), outpipe[2])
        devnull == LowestFree(t5)
        t6 == Dup2(Dup2(Dup2(OpenAt(t5, devnull, DevNull, FALSE),
                             devnull, 0), devnull, 1), devnull, 2)
    IN Execve(Close(t6, devnull))

NoTable == [low |-> 0, m |-> <<>>]

\* the process starts with descriptors 0 .. open - 1 in use
process_start(open) ==
    /\ fdt.phase = "start"
    /\ fdt' = [fdt EXCEPT !.phase = "running",
                          !.parent = [low |-> open, m |-> <<>>]]
    /\ UNCHANGED <<cov_vars, reprl_vars, beside_fdt>>

\* reprl_create_context: reserve 100 .. 103, calloc
fd_reprl_create_context ==
    /\ fdt.phase = "running"
    /\ Len(fdt.contexts) + Len(fdt.servers) < MaxOwners
    /\ fdt' = [fdt EXCEPT
                 !.parent = ReserveFds(fdt.parent, REPRL_CHILD_CTRL_IN, 4),
                 !.contexts = Append(fdt.contexts,
                     [initialized |-> 0, pid |-> 0,
                      ctrl_in |-> 0, ctrl_out |-> 0,
                      data_in |-> NoFd, data_out |-> NoFd,
                      child_stdout |-> NoFd, child_stderr |-> NoFd,
                      child_execve |-> FALSE, child_fds |-> NoTable])]
    /\ UNCHANGED <<cov_vars, reprl_vars, beside_fdt>>

\* reprl_initialize_context: the data channels, each a memfd with
\* close-on-exec, in the order data_in, data_out, child_stdout, child_stderr
fd_reprl_initialize_context(i, capture_stdout, capture_stderr) ==
    /\ fdt.phase = "running"
    /\ i \in 1 .. Len(fdt.contexts)
    /\ IF fdt.contexts[i].initialized = 1
       THEN UNCHANGED fdt
       ELSE LET free == LowestFreeSeq(fdt.parent, fdt.parent.low, 4)
                data_in == free[1]
                data_out == free[2]
                child_stdout == IF capture_stdout THEN free[3] ELSE NoFd
                child_stderr == IF ~capture_stderr THEN NoFd
                                ELSE IF capture_stdout THEN free[4] ELSE free[3]
                t2 == OpenAt(OpenAt(fdt.parent, data_in, MemFd(i, "data_in"), TRUE),
                             data_out, MemFd(i, "data_out"), TRUE)
                t3 == IF capture_stdout
                      THEN OpenAt(t2, child_stdout, MemFd(i, "child_stdout"), TRUE)
                      ELSE t2
                t4 == IF capture_stderr
                      THEN OpenAt(t3, child_stderr, MemFd(i, "child_stderr"), TRUE)
                      ELSE t3
            IN fdt' = [fdt EXCEPT
                         !.parent = t4,
                         !.contexts[i] = [@ EXCEPT
                             !.initialized = 1,
                             !.data_in = data_in, !.data_out = data_out,
                             !.child_stdout = child_stdout,
                             !.child_stderr = child_stderr]]
    /\ UNCHANGED <<cov_vars, reprl_vars, beside_fdt>>

\* reprl_spawn_child, called by reprl_execute on an initialized context that
\* has no child: two pipes, close-on-exec on the parent's ends, fork, the
\* child's dup2s and closes up to execve, the parent's closes.  pipe and
\* fork succeed here; their failures are steps of SpecReprl.
fd_reprl_spawn_child(i) ==
    /\ fdt.phase = "running"
    /\ i \in 1 .. Len(fdt.contexts)
    /\ fdt.contexts[i].initialized = 1
    /\ fdt.contexts[i].pid = 0
    /\ LET c == fdt.contexts[i]
           free == LowestFreeSeq(fdt.parent, fdt.parent.low, 4)
           crpipe == <<free[1], free[2]>>
           cwpipe == <<free[3], free[4]>>
           cr0 == crpipe[1]
           cr1 == crpipe[2]
           cw0 == cwpipe[1]
           cw1 == cwpipe[2]
           t4 == Pipe(Pipe(fdt.parent, ReprlPipe(i, "crpipe", "r"),
                                       ReprlPipe(i, "crpipe", "w")),
                      ReprlPipe(i, "cwpipe", "r"), ReprlPipe(i, "cwpipe", "w"))
           t5 == SetCloExec(SetCloExec(t4, cr0), cw1)
           after == Close(Close(t5, cr1), cw0)
       IN fdt' = [fdt EXCEPT
             !.parent = after,
             !.contexts[i] = [@ EXCEPT
                 !.ctrl_in = cr0, !.ctrl_out = cw1, !.pid = i,
                 !.child_execve = ~ReprlChildDup2Fails(c, t5, crpipe, cwpipe),
                 !.child_fds = ReprlChildFds(c, t5, crpipe, cwpipe)]]
    /\ UNCHANGED <<cov_vars, reprl_vars, beside_fdt>>

\* spinup_forkserver: reserve 137 .. 139 unless 137 is open, three pipes,
\* fork, the child's closes and dup2s up to execve, the parent's closes
fd_spinup_forkserver ==
    /\ fdt.phase = "running"
    /\ Len(fdt.contexts) + Len(fdt.servers) < MaxOwners
    /\ LET i == Len(fdt.servers) + 1
           t0 == IF ~IsOpen(fdt.parent, FD)
                 THEN ReserveFds(fdt.parent, FD, 3) ELSE fdt.parent
           free == LowestFreeSeq(t0, t0.low, 6)
           w0 == free[1]
           w1 == free[2]
           r0 == free[3]
           r1 == free[4]
           o0 == free[5]
           o1 == free[6]
           t6 == Pipe(Pipe(Pipe(t0, ServerPipe(i, "wpipe", "r"),
                                    ServerPipe(i, "wpipe", "w")),
                           ServerPipe(i, "rpipe", "r"), ServerPipe(i, "rpipe", "w")),
                      ServerPipe(i, "outpipe", "r"), ServerPipe(i, "outpipe", "w"))
       IN fdt' = [fdt EXCEPT
             !.parent = Close(Close(Close(t6, r1), w0), o1),
             !.servers = Append(@,
                 [rfd |-> r0, wfd |-> w1, outfd |-> o0,
                  child_fds |-> ForkserverChildFds(t6, <<r0, r1>>, <<w0, w1>>,
                                                   <<o0, o1>>)])]
    /\ UNCHANGED <<cov_vars, reprl_vars, beside_fdt>>

InitFds ==
    fdt = [phase |-> "start", parent |-> NoTable,
           contexts |-> <<>>, servers |-> <<>>]

NextFds ==
    \/ \E open \in OpenAtStart : process_start(open)
    \/ fd_reprl_create_context
    \/ \E i \in 1 .. MaxOwners, capture_stdout \in BOOLEAN,
          capture_stderr \in BOOLEAN :
            fd_reprl_initialize_context(i, capture_stdout, capture_stderr)
    \/ \E i \in 1 .. MaxOwners : fd_reprl_spawn_child(i)
    \/ fd_spinup_forkserver


\* ---------------------------------------------------------------------------
\* The forkserver: forkserver_spawn in the fuzzer (forkserver.c), the loop of
\* forkserver() in the target (server.c), and the grandchildren it forks.
\* The state starts after spinup_forkserver and the HELO exchange.  Every
\* word on the pipe from the supervisor carries, besides its value, which
\* grandchild it was written for.
\* ---------------------------------------------------------------------------

\* How many times forkserver_spawn is called.
MaxRuns == 2

\* int timeout of poll(), in milliseconds; negative waits for ever
SpawnTimeouts == {0 - 1, 500}

PidWord(g) == [kind |-> "pid", of |-> g, value |-> g]
StatusWord(g, status) == [kind |-> "status", of |-> g, value |-> status]

\* What an int holds that no read has filled: pid_t pid and result.status
\* are not initialized, so any value, here the pid of any grandchild or 0
\* for a number that is no grandchild's.
Uninitialized ==
    {[kind |-> "uninitialized", of |-> 0, value |-> v] : v \in 0 .. MaxRuns}

\* forkserver_spawn up to its first read: write(wfd, "fork", 4).  The write
\* reaches the pipe only while the supervisor has its read end open.
forkserver_spawn(timeout) ==
    /\ fsv.pc = "idle"
    /\ fsv.calls < MaxRuns
    /\ fsv' = [fsv EXCEPT !.pc = "read_pid",
                          !.calls = @ + 1,
                          !.timeout = timeout,
                          !.wpipe = IF fsv.sup.at = "exited" THEN @ ELSE @ + 1]
    /\ UNCHANGED <<cov_vars, reprl_vars, beside_fsv>>

\* A read(rfd, &word, 4) of the caller: it blocks on an empty pipe while the
\* supervisor lives, takes the next word, or fills nothing because a signal
\* interrupted it (-1, EINTR) or the supervisor is gone (0).  Its result is
\* never looked at, so an unfilled int keeps whatever the stack held.
ReadBlocks(interrupted) ==
    ~interrupted /\ fsv.rpipe = <<>> /\ fsv.sup.at # "exited"

ReadFills(interrupted) == ~interrupted /\ fsv.rpipe # <<>>

ReadWord(interrupted, garbage) ==
    IF ReadFills(interrupted) THEN Head(fsv.rpipe) ELSE garbage

RestOfPipe(interrupted) ==
    IF ReadFills(interrupted) THEN Tail(fsv.rpipe) ELSE fsv.rpipe

MayInterrupt(interrupted) == interrupted => fsv.interrupts < MaxInterrupts

Interrupted(interrupted) ==
    IF interrupted THEN fsv.interrupts + 1 ELSE fsv.interrupts

\* read(rfd, &pid, 4)
spawn_read_pid(interrupted, garbage) ==
    /\ fsv.pc = "read_pid"
    /\ MayInterrupt(interrupted)
    /\ ~ReadBlocks(interrupted)
    /\ fsv' = [fsv EXCEPT !.pc = "poll",
                          !.pid = ReadWord(interrupted, garbage),
                          !.rpipe = RestOfPipe(interrupted),
                          !.interrupts = Interrupted(interrupted)]
    /\ UNCHANGED <<cov_vars, reprl_vars, beside_fsv>>

\* kill(pid, SIGKILL) ends the process with this pid if there is one
KillGrandchild(gc, pid) ==
    [g \in DOMAIN gc |->
        IF g = pid /\ gc[g].state = "running"
        THEN [state |-> "zombie", status |-> WaitStatus("signal", SIGKILL, FALSE)]
        ELSE gc[g]]

\* if (poll(&fds, 1, timeout) == 0): poll returns 1 when a word is there or
\* the supervisor has closed the pipe, 0 when the timeout passes first, -1
\* when a signal interrupts it.  The kill is a system call of its own: the
\* supervisor and the grandchild run between the return of poll and it.
spawn_poll(interrupted, timed_out) ==
    /\ fsv.pc = "poll"
    /\ MayInterrupt(interrupted)
    /\ timed_out => (~interrupted /\ fsv.timeout >= 0 /\ fsv.rpipe = <<>>
                     /\ fsv.sup.at # "exited")
    /\ (~timed_out /\ ~interrupted) => (fsv.rpipe # <<>> \/ fsv.sup.at = "exited")
    /\ fsv' = [fsv EXCEPT !.pc = IF timed_out THEN "kill" ELSE "read_status",
                          !.interrupts = Interrupted(interrupted)]
    /\ UNCHANGED <<cov_vars, reprl_vars, beside_fsv>>

\* kill(pid, SIGKILL) after poll returned 0
spawn_kill ==
    /\ fsv.pc = "kill"
    /\ fsv' = [fsv EXCEPT !.pc = "read_status",
                          !.gc = KillGrandchild(@, fsv.pid.value)]
    /\ UNCHANGED <<cov_vars, reprl_vars, beside_fsv>>

\* read(rfd, &result.status, 4), fetch_output, result.pid = pid, return
spawn_read_status(interrupted, garbage) ==
    /\ fsv.pc = "read_status"
    /\ MayInterrupt(interrupted)
    /\ ~ReadBlocks(interrupted)
    /\ fsv' = [fsv EXCEPT !.pc = "idle",
                          !.result = [returned |-> TRUE,
                                      pid |-> fsv.pid,
                                      status |-> ReadWord(interrupted, garbage)],
                          !.rpipe = RestOfPipe(interrupted),
                          !.interrupts = Interrupted(interrupted)]
    /\ UNCHANGED <<cov_vars, reprl_vars, beside_fsv>>

\* server.c: n = read(rfd, &buf, 4) with a token in the pipe
sup_read ==
    /\ fsv.sup.at = "read"
    /\ fsv.wpipe > 0
    /\ fsv' = [fsv EXCEPT !.wpipe = @ - 1,
                          !.sup.at = "fork",
                          !.sup.tokens = @ + 1]
    /\ UNCHANGED <<cov_vars, reprl_vars, beside_fsv>>

\* pid = fork(); the grandchild closes 137 and 138 and returns into main;
\* the supervisor writes the pid, or exits if fork failed
sup_fork(fork_ok) ==
    /\ fsv.sup.at = "fork"
    /\ LET g == fsv.sup.forked + 1 IN
       IF fork_ok
       THEN fsv' = [fsv EXCEPT
                      !.sup.at = "waitpid",
                      !.sup.pid = g,
                      !.sup.forked = g,
                      !.gc[g] = [state |-> "running", status |-> 0],
                      !.rpipe = Append(@, PidWord(g)),
                      !.sent = Append(@, PidWord(g))]
       ELSE fsv' = [fsv EXCEPT !.sup.at = "exited"]
    /\ UNCHANGED <<cov_vars, reprl_vars, beside_fsv>>

\* waitpid(pid, &status, 0) returns once the grandchild is dead;
\* write(wfd, &status, 4)
sup_waitpid ==
    /\ fsv.sup.at = "waitpid"
    /\ fsv.gc[fsv.sup.pid].state = "zombie"
    /\ LET g == fsv.sup.pid
           word == StatusWord(g, fsv.gc[g].status)
       IN fsv' = [fsv EXCEPT
                    !.sup.at = "read",
                    !.gc[g].state = "reaped",
                    !.rpipe = Append(@, word),
                    !.sent = Append(@, word)]
    /\ UNCHANGED <<cov_vars, reprl_vars, beside_fsv>>

\* the grandchild runs main to its end
grandchild_exit(g, code) ==
    /\ g \in DOMAIN fsv.gc
    /\ fsv.gc[g].state = "running"
    /\ fsv' = [fsv EXCEPT
                 !.gc[g] = [state |-> "zombie",
                            status |-> WaitStatus("exit", code, FALSE)]]
    /\ UNCHANGED <<cov_vars, reprl_vars, beside_fsv>>

NoWord == [kind |-> "none", of |-> 0, value |-> 0]

InitFork ==
    fsv = [pc |-> "idle", calls |-> 0, timeout |-> 0, pid |-> NoWord,
           result |-> [returned |-> FALSE, pid |-> NoWord, status |-> NoWord],
           interrupts |-> 0, wpipe |-> 0, rpipe |-> <<>>, sent |-> <<>>,
           sup |-> [at |-> "read", pid |-> 0, tokens |-> 0, forked |-> 0],
           gc |-> [g \in 1 .. MaxRuns |-> [state |-> "unborn", status |-> 0]]]

NextFork ==
    \/ \E timeout \in SpawnTimeouts : forkserver_spawn(timeout)
    \/ \E interrupted \in BOOLEAN, garbage \in Uninitialized :
          spawn_read_pid(interrupted, garbage)
    \/ \E interrupted \in BOOLEAN, timed_out \in BOOLEAN :
          spawn_poll(interrupted, timed_out)
    \/ spawn_kill
    \/ \E interrupted \in BOOLEAN, garbage \in Uninitialized :
          spawn_read_status(interrupted, garbage)
    \/ sup_read
    \/ \E fork_ok \in BOOLEAN : sup_fork(fork_ok)
    \/ sup_waitpid
    \/ \E g \in 1 .. MaxRuns, code \in ExitCodes : grandchild_exit(g, code)


\* ---------------------------------------------------------------------------
\* The REPRL context on Windows (libreprl-windows.c).  A HANDLE is "NULL"
\* (zero), "INVALID" (INVALID_HANDLE_VALUE), "pipe" or "process" (open on
\* one), or "closed".  Each call is one step; what the system calls of a
\* call answer is drawn with it.  events lists what the last reprl_execute
\* did with the child: "spawn", "helo", "exec", "status".
\* ---------------------------------------------------------------------------

\* WaitForSingleObject results
WaitResults == {"WAIT_TIMEOUT", "WAIT_OBJECT_0", "WAIT_FAILED"}

\* reprl_error: sets last_error, the caller returns -1
win_reprl_error(w, message) == [w EXCEPT !.last_error = message]

\* a ReadFile, WriteFile, TerminateProcess or wait works on an open handle only
Usable(h) == h \in {"pipe", "process"}

win_reprl_child_terminated(w) ==
    IF w.hChild = "INVALID" THEN w
    ELSE [w EXCEPT !.hChild = "INVALID",
                   !.hControlRead = "closed",
                   !.hControlWrite = "closed"]

win_reprl_terminate_child(w) ==
    IF w.hChild = "INVALID" THEN w
    ELSE win_reprl_child_terminated(
             [w EXCEPT !.live = IF Usable(w.hChild) THEN 0 ELSE @])

\* reprl_spawn_child.  CreatePipe answers nonzero when it has made the pipe,
\* and the code returns the error on a nonzero answer.
win_reprl_spawn_child(w, output_made, input_made, process_made, helo_sent) ==
    IF output_made
    THEN [w |-> win_reprl_error(w, "Could not create pipe for REPRL communication"),
          r |-> -1]
    ELSE IF input_made
    THEN [w |-> win_reprl_error(w, "Could not create pipe for REPRL communication"),
          r |-> -1]
    ELSE LET w1 == [w EXCEPT
                      !.hControlRead = "INVALID",
                      !.hControlWrite = "INVALID",
                      !.hChild = IF process_made THEN "process" ELSE "NULL",
                      !.live = IF process_made THEN 1 ELSE @,
                      !.children = IF process_made THEN @ + 1 ELSE @,
                      !.events = IF process_made THEN Append(@, "spawn") ELSE @]
         IN IF ~(Usable(w1.hControlRead) /\ helo_sent)
            THEN [w |-> win_reprl_error(win_reprl_terminate_child(w1),
                                        "Did not receive HELO message from child"),
                  r |-> -1]
            ELSE IF ~Usable(w1.hControlWrite)
            THEN [w |-> win_reprl_error(win_reprl_terminate_child(w1),
                                        "Failed to send HELO reply message to child"),
                  r |-> -1]
            ELSE [w |-> [w1 EXCEPT !.events = Append(@, "helo")], r |-> 0]

\* reprl_execute from the "exec" command on
win_execute_command(w, script_size, timeout, wait, status) ==
    IF ~Usable(w.hControlWrite)
    THEN \* GetExitCodeProcess answers a BOOL, never STILL_ACTIVE
         [w |-> win_reprl_error(win_reprl_child_terminated(w),
                                "Child unexpected terminated between executions"),
          r |-> -1]
    ELSE LET w1 == [w EXCEPT !.events = Append(@, "exec"),
                             !.script_len = script_size]
         IN IF wait = "WAIT_TIMEOUT"
            THEN [w |-> win_reprl_terminate_child(w1), r |-> 65536]
            ELSE IF wait = "WAIT_FAILED"
            THEN [w |-> win_reprl_error(w1, "WaitForSingleObject error"), r |-> -1]
            ELSE IF ~Usable(w1.hControlRead)
            THEN [w |-> win_reprl_error(w1, "unable to read from control pipe"),
                  r |-> -1]
            ELSE [w |-> [w1 EXCEPT !.events = Append(@, "status")],
                  r |-> status % 65536]

win_reprl_execute_body(w, script_size, timeout, fresh_instance, output_made, input_made, process_made, helo_sent, wait, status) ==
    IF w.initialized = 0
    THEN [w |-> win_reprl_error(w, "REPRL context is not initialized"), r |-> -1]
    ELSE IF script_size > REPRL_MAX_DATA_SIZE
    THEN [w |-> win_reprl_error(w, "Script too large"), r |-> -1]
    ELSE LET w1 == IF fresh_instance /\ w.hChild # "INVALID"
                   THEN win_reprl_terminate_child(w) ELSE w
             spawned == IF w1.hChild = "INVALID"
                        THEN win_reprl_spawn_child(w1, output_made, input_made,
                                                   process_made, helo_sent)
                        ELSE [w |-> w1, r |-> 0]
         IN IF spawned.r # 0 THEN spawned
            ELSE win_execute_command(spawned.w, script_size, timeout, wait, status)

\* reprl_create_context: calloc(1, sizeof(struct reprl_context))
win_reprl_create_context ==
    /\ win.phase = "none"
    /\ win' = [win EXCEPT !.phase = "created"]
    /\ UNCHANGED <<cov_vars, reprl_vars, beside_win>>

win_reprl_initialize_context(channels_ok, capture_stdout, capture_stderr) ==
    /\ win.phase = "created"
    /\ IF win.initialized = 1
       THEN win' = [win_reprl_error(win, "Context is already initialized") EXCEPT
                       !.ret = [op |-> "reprl_initialize_context", value |-> -1]]
       ELSE win' = [win EXCEPT
                       !.data_in = channels_ok,
                       !.data_out = channels_ok,
                       !.child_stdout = capture_stdout /\ channels_ok,
                       !.child_stderr = capture_stderr /\ channels_ok,
                       !.initialized = IF channels_ok THEN 1 ELSE 0,
                       !.ret = [op |-> "reprl_initialize_context",
                                value |-> IF channels_ok THEN 0 ELSE -1]]
    /\ UNCHANGED <<cov_vars, reprl_vars, beside_win>>

win_reprl_execute(script_size, timeout, fresh_instance, output_made, input_made, process_made, helo_sent, wait, status) ==
    /\ win.phase = "created"
    /\ win.executes < MaxRuns
    /\ LET done == win_reprl_execute_body(
                       [win EXCEPT !.events = <<>>], script_size, timeout,
                       fresh_instance, output_made, input_made, process_made,
                       helo_sent, wait, status)
       IN win' = [done.w EXCEPT
                    !.executes = @ + 1,
                    !.ret = [op |-> "reprl_execute", value |-> done.r]]
    /\ UNCHANGED <<cov_vars, reprl_vars, beside_win>>

\* before reprl_create_context; its calloc leaves every field zero
InitWin ==
    win = [phase |-> "none", initialized |-> 0,
           data_in |-> FALSE, data_out |-> FALSE,
           child_stdout |-> FALSE, child_stderr |-> FALSE,
           hChild |-> "NULL", hControlRead |-> "NULL", hControlWrite |-> "NULL",
           last_error |-> "", script_len |-> 0,
           live |-> 0, children |-> 0, executes |-> 0, events |-> <<>>,
           ret |-> [op |-> "none", value |-> 0]]

NextWin ==
    \/ win_reprl_create_context
    \/ \E channels_ok \in BOOLEAN, capture_stdout \in BOOLEAN,
          capture_stderr \in BOOLEAN :
            win_reprl_initialize_context(channels_ok, capture_stdout,
                                         capture_stderr)
    \/ \E script_size \in ScriptLengths, timeout \in SpawnTimeouts,
          fresh_instance \in BOOLEAN, output_made \in BOOLEAN,
          input_made \in BOOLEAN, process_made \in BOOLEAN,
          helo_sent \in BOOLEAN, wait \in WaitResults, status \in StatusWords :
            win_reprl_execute(script_size, timeout, fresh_instance, output_made,
                              input_made, process_made, helo_sent, wait, status)


\* ---------------------------------------------------------------------------
\* The least-visited-edges query.  cov_get_edge_counts (coverage.c) hands
\* out the edge_count array; least_visited_edges itself is the caller's code
\* and follows the specification's algorithm.  edge_count is a function on
\* 0 .. n - 1 whose index 0 is the reserved edge and stays 0.
\* ---------------------------------------------------------------------------

\* How many edges besides the reserved one, and the largest hit count tried.
NumCounted == 3
MaxHits == 2

\* the counts of the specification's scenario: [_, 0, 5, 1, 3, 1, 10, 2]
ScenarioCounts ==
    [i \in 0 .. 7 |-> <<0, 0, 5, 1, 3, 1, 10, 2>>[i + 1]]

\* the edge_count arrays tried
EdgeCounts ==
    {c \in [0 .. NumCounted -> 0 .. MaxHits] : c[0] = 0} \cup {ScenarioCounts}

DesiredCounts == 0 .. NumCounted + 1

ExpectedRounds == {1, 10}

\* cov_get_edge_counts: -1 without tracking, else the array and its length
cov_get_edge_counts(should_track_edges, edge_count) ==
    IF ~should_track_edges
    THEN [r |-> -1, count |-> 0, edge_hit_count |-> <<>>]
    ELSE [r |-> 0, count |-> Cardinality(DOMAIN edge_count),
          edge_hit_count |-> edge_count]

\* the array as a sequence, sorted ascending, leading zeros skipped
SortedNonZero(counts, n) ==
    SelectSeq(SortSeq([k \in 1 .. n |-> counts[k - 1]], LAMBDA a, b : a < b),
              LAMBDA c : c # 0)

\* the first desired entries of it
Picked(counts, n, desired) ==
    SubSeq(SortedNonZero(counts, n), 1,
           Min(desired, Len(SortedNonZero(counts, n))))

\* scan the original array from index i on, collecting every index whose
\* count is in (0, T], until cardinality indices are collected
RECURSIVE CollectUpTo(_, _, _, _, _, _)
CollectUpTo(counts, n, i, T, cardinality, collected) ==
    IF i >= n \/ Len(collected) = cardinality THEN collected
    ELSE CollectUpTo(counts, n, i + 1, T, cardinality,
                     IF counts[i] > 0 /\ counts[i] <= T
                     THEN Append(collected, i) ELSE collected)

LeastVisited(counts, n, desired) ==
    LET picked == Picked(counts, n, desired)
    IN IF picked = <<>> THEN <<>>
       ELSE CollectUpTo(counts, n, 0, picked[Len(picked)], Len(picked), <<>>)

\* the process finishes initialization with or without edge tracking and
\* runs inputs until edge_count holds these counts
lve_counts(should_track_edges, counts) ==
    /\ lve.phase = "start"
    /\ lve' = [lve EXCEPT !.phase = "counted",
                          !.should_track_edges = should_track_edges,
                          !.edge_count = counts]
    /\ UNCHANGED <<cov_vars, reprl_vars, beside_lve>>

\* least_visited_edges(ctx, desired, expected_rounds): fails if tracking is
\* disabled or desired is 0; else selects, and adds expected_rounds to the
\* counter of each selected edge
least_visited_edges(desired, expected_rounds) ==
    /\ lve.phase = "counted"
    /\ lve.calls < MaxRuns
    /\ LET got == cov_get_edge_counts(lve.should_track_edges, lve.edge_count)
           selected == LeastVisited(got.edge_hit_count, got.count, desired)
           chosen == {selected[k] : k \in 1 .. Len(selected)}
       IN IF got.r # 0 \/ desired = 0
          THEN lve' = [lve EXCEPT
                         !.calls = @ + 1,
                         !.last = [failed |-> TRUE, desired |-> desired,
                                   before |-> lve.edge_count,
                                   indices |-> <<>>]]
          ELSE lve' = [lve EXCEPT
                         !.calls = @ + 1,
                         !.edge_count = [i \in DOMAIN @ |->
                                           IF i \in chosen
                                           THEN @[i] + expected_rounds ELSE @[i]],
                         !.last = [failed |-> FALSE, desired |-> desired,
                                   before |-> lve.edge_count,
                                   indices |-> selected]]
    /\ UNCHANGED <<cov_vars, reprl_vars, beside_lve>>

InitLeast ==
    lve = [phase |-> "start", should_track_edges |-> FALSE,
           edge_count |-> [i \in 0 .. 0 |-> 0], calls |-> 0,
           last |-> [failed |-> FALSE, desired |-> 0,
                     before |-> [i \in 0 .. 0 |-> 0], indices |-> <<>>]]

NextLeast ==
    \/ \E should_track_edges \in BOOLEAN, counts \in EdgeCounts :
          lve_counts(should_track_edges, counts)
    \/ \E desired \in DesiredCounts, expected_rounds \in ExpectedRounds :
          least_visited_edges(desired, expected_rounds)


\* ---------------------------------------------------------------------------
\* The content of the data channels.  A channel is a file with the offset of
\* its open file description, shared by the parent and the child, and the
\* parent's mapping of its first REPRL_MAX_DATA_SIZE bytes.  The mapping is
\* held as runs of bytes: n bytes that are NUL (tag 0) or that the child
\* wrote, none of them NUL, after the tag-th reprl_execute began.  The child
\* may write whenever the context has been initialized, also after an
\* execute that returned without its status.
\* ---------------------------------------------------------------------------

\* the channels a fetch operation reads: reprl_fetch_fuzzout reads data_in
ChannelNames == {"data_in", "child_stdout", "child_stderr"}

\* the sizes of one write of the child
WriteSizes ==
    {1, 2, REPRL_MAX_DATA_SIZE - 1, REPRL_MAX_DATA_SIZE, REPRL_MAX_DATA_SIZE + 1}

NoChannel == [open |-> FALSE, offset |-> 0, mapping |-> <<>>]

\* no string of a fetch is held: the next execute or write changes it
NoFetch == [name |-> "none", string |-> <<>>, written |-> 0, execute |-> 0]

\* reprl_create_data_channel: an empty file grown to REPRL_MAX_DATA_SIZE
EmptyChannel ==
    [open |-> TRUE, offset |-> 0,
     mapping |-> <<[n |-> REPRL_MAX_DATA_SIZE, tag |-> 0]>>]

RECURSIVE TakeBytes(_, _)
TakeBytes(runs, k) ==
    IF k = 0 \/ runs = <<>> THEN <<>>
    ELSE IF Head(runs).n <= k
    THEN <<Head(runs)>> \o TakeBytes(Tail(runs), k - Head(runs).n)
    ELSE <<[n |-> k, tag |-> Head(runs).tag]>>

RECURSIVE DropBytes(_, _)
DropBytes(runs, k) ==
    IF k = 0 \/ runs = <<>> THEN runs
    ELSE IF Head(runs).n <= k THEN DropBytes(Tail(runs), k - Head(runs).n)
    ELSE <<[n |-> Head(runs).n - k, tag |-> Head(runs).tag]>> \o Tail(runs)

\* adjacent runs of the same bytes are one run
RECURSIVE Merged(_)
Merged(runs) ==
    IF Len(runs) < 2 THEN runs
    ELSE IF runs[1].tag = runs[2].tag
    THEN Merged(<<[n |-> runs[1].n + runs[2].n, tag |-> runs[1].tag]>>
                \o Tail(Tail(runs)))
    ELSE <<runs[1]>> \o Merged(Tail(runs))

\* n bytes stored at pos; what lies past the mapping is not in it
Store(mapping, pos, n, tag) ==
    IF pos >= REPRL_MAX_DATA_SIZE \/ n = 0 THEN mapping
    ELSE LET m == Min(n, REPRL_MAX_DATA_SIZE - pos)
         IN Merged(TakeBytes(mapping, pos) \o <<[n |-> m, tag |-> tag]>>
                   \o DropBytes(mapping, pos + m))

\* the C string at the start of the mapping: the bytes before the first NUL
RECURSIVE CString(_)
CString(mapping) ==
    IF mapping = <<>> \/ Head(mapping).tag = 0 THEN <<>>
    ELSE <<Head(mapping)>> \o CString(Tail(mapping))

RECURSIVE StrLen(_)
StrLen(str) == IF str = <<>> THEN 0 ELSE Head(str).n + StrLen(Tail(str))

\* lseek(channel->fd, 0, SEEK_SET), for a channel that exists
SeekStartKeeps(channel) == channel

SeekStart(channel) ==
    IF channel.open THEN [channel EXCEPT !.offset = 0] ELSE channel

\* fetch_data_channel_content: "" for a NULL channel; else the offset,
\* capped, a NUL stored there, and the mapping as a C string
FetchPosition(channel) == Min(channel.offset, REPRL_MAX_DATA_SIZE - 1)

Fetched(channel) ==
    IF ~channel.open THEN channel
    ELSE [channel EXCEPT !.mapping = Store(@, FetchPosition(channel), 1, 0)]

fetch_data_channel_content(channel) ==
    IF ~channel.open THEN <<>> ELSE CString(Fetched(channel).mapping)

\* reprl_initialize_context: data_in always, the other two when captured
dch_reprl_initialize_context(capture_stdout, capture_stderr) ==
    /\ dch.initialized = 0
    /\ dch' = [dch EXCEPT
                 !.initialized = 1,
                 !.channel = [name \in ChannelNames |->
                     IF \/ name = "data_in"
                        \/ name = "child_stdout" /\ capture_stdout
                        \/ name = "child_stderr" /\ capture_stderr
                     THEN EmptyChannel ELSE NoChannel]]
    /\ UNCHANGED <<cov_vars, reprl_vars, beside_dch>>

\* reprl_execute: every channel that exists is reset to the start
dch_reprl_execute ==
    /\ dch.initialized = 1
    /\ dch.executes < MaxRuns
    /\ dch' = [dch EXCEPT
                 !.executes = @ + 1,
                 !.channel = [name \in ChannelNames |-> SeekStart(@[name])],
                 !.written = [name \in ChannelNames |-> 0],
                 !.writes = 0,
                 !.last = NoFetch]
    /\ UNCHANGED <<cov_vars, reprl_vars, beside_dch>>

\* the child writes n bytes, none NUL, to descriptor 103, or one byte to
\* descriptor 1 or 2; a stream that is not captured goes to /dev/null
child_write(name, n) ==
    /\ dch.initialized = 1
    /\ dch.executes > 0
    /\ dch.writes < MaxOut
    /\ dch.channel[name].open
    /\ name = "data_in" \/ n = 1
    /\ dch' = [dch EXCEPT
                 !.writes = @ + 1,
                 !.last = NoFetch,
                 !.written[name] = @ + n,
                 !.channel[name] =
                     [@ EXCEPT !.offset = @ + n,
                               !.mapping = Store(@, dch.channel[name].offset, n,
                                                 dch.executes)]]
    /\ UNCHANGED <<cov_vars, reprl_vars, beside_dch>>

\* reprl_fetch_fuzzout, reprl_fetch_stdout, reprl_fetch_stderr, on a context
\* in any state: before reprl_initialize_context every channel is NULL
reprl_fetch(name) ==
    /\ dch' = [dch EXCEPT
                 !.channel[name] = Fetched(@),
                 !.last = [name |-> name,
                           string |-> fetch_data_channel_content(dch.channel[name]),
                           written |-> dch.written[name],
                           execute |-> dch.executes]]
    /\ UNCHANGED <<cov_vars, reprl_vars, beside_dch>>

InitChannels ==
    dch = [initialized |-> 0, executes |-> 0, writes |-> 0,
           channel |-> [name \in ChannelNames |-> NoChannel],
           written |-> [name \in ChannelNames |-> 0],
           last |-> NoFetch]

NextChannels ==
    \/ \E capture_stdout \in BOOLEAN, capture_stderr \in BOOLEAN :
          dch_reprl_initialize_context(capture_stdout, capture_stderr)
    \/ dch_reprl_execute
    \/ \E name \in ChannelNames, n \in WriteSizes : child_write(name, n)
    \/ \E name \in ChannelNames : reprl_fetch(name)

\* ---------------------------------------------------------------------------
\* One child through its executions: the loop of main in njs_fuzzilli.c with
\* the guards of njs_fuzzilli_module.c, and the parent clearing the bitmap
\* before each execution and evaluating it after.  The child was built with
\* the header child_cov.layout names.
\* ---------------------------------------------------------------------------

\* the guards on the way from the end of one script to the read of the next
\* command: the loop of main and the entry of njs_fetch_fuzz_input
PreludeGuards == {1}

\* a process image before the guard-init callback ran: the guards are zero
NoGuards == [k \in 1 .. NumGuards |-> 0]

\* __sanitizer_cov_trace_pc_guard_init in a new process, at its start
cyc_trace_pc_guard_init ==
    /\ cyc.child = "unstarted"
    /\ cyc' = [cyc EXCEPT !.child = "prelude",
                          !.guards = ResetGuards(child_cov.layout)]
    /\ UNCHANGED <<cov_vars, reprl_vars, beside_cyc>>

\* __sanitizer_cov_trace_pc_guard(guard), in the prelude or in the script
cyc_trace_pc_guard(g) ==
    /\ \/ cyc.child = "prelude" /\ g \in PreludeGuards
       \/ cyc.child = "script" /\ g \in Hot
    /\ LET index == cyc.guards[g]
           ran == IF cyc.child = "script" THEN cyc.executed \cup {g} ELSE cyc.executed
       IN  IF index = 0
           THEN cyc' = [cyc EXCEPT !.executed = ran]
           ELSE cyc' = [cyc EXCEPT
                          !.executed = ran,
                          !.bits = TripEffect(@, child_cov.layout, index),
                          !.guards[g] = 0]
    /\ UNCHANGED <<cov_vars, reprl_vars, beside_cyc>>

\* njs_fetch_fuzz_input: the command is read and the script runs
cyc_fetch_fuzz_input ==
    /\ cyc.child = "prelude"
    /\ cyc.command
    /\ cyc' = [cyc EXCEPT !.child = "script", !.command = FALSE]
    /\ UNCHANGED <<cov_vars, reprl_vars, beside_cyc>>

\* write(REPRL_CWFD, &status, 4)
cyc_write_status ==
    /\ cyc.child = "script"
    /\ cyc' = [cyc EXCEPT !.child = "status_written", !.status = TRUE]
    /\ UNCHANGED <<cov_vars, reprl_vars, beside_cyc>>

\* __sanitizer_cov_reset_edgeguards(), after the status is written
cyc_reset_edgeguards ==
    /\ cyc.child = "status_written"
    /\ cyc' = [cyc EXCEPT !.child = "prelude",
                          !.guards = ResetGuards(child_cov.layout)]
    /\ UNCHANGED <<cov_vars, reprl_vars, beside_cyc>>

\* cov_clear_bitmap before an execution; bitmap_size is that of num_edges =
\* NumGuards + 1.  executed starts to collect the guards of this execution,
\* before keeps those of the earlier ones.
cyc_cov_clear_bitmap ==
    /\ cyc.parent = "idle"
    /\ cyc.runs < MaxRuns
    /\ cyc' = [cyc EXCEPT
                 !.parent = "cleared",
                 !.executed = {},
                 !.before = @ \cup cyc.executed,
                 !.bits = (@ \ ByteRange(EdgesOffset, BitmapSize(NumGuards + 1)))
                              \ ByteRange(TurbofanBitsOffset, 8)]
    /\ UNCHANGED <<cov_vars, reprl_vars, beside_cyc>>

\* reprl_execute up to the poll: a child is there, or is spawned and has
\* sent its HELO, and the command is written
cyc_reprl_execute ==
    /\ cyc.parent = "cleared"
    /\ cyc.child # "unstarted"
    /\ cyc' = [cyc EXCEPT !.parent = "waiting", !.command = TRUE, !.runs = @ + 1]
    /\ UNCHANGED <<cov_vars, reprl_vars, beside_cyc>>

\* reprl_execute returns the status the child wrote
cyc_read_status ==
    /\ cyc.parent = "waiting"
    /\ cyc.status
    /\ cyc' = [cyc EXCEPT !.parent = "returned", !.status = FALSE]
    /\ UNCHANGED <<cov_vars, reprl_vars, beside_cyc>>

\* reprl_execute times out: the child is killed, and the next one starts
\* from a new process image
cyc_timeout ==
    /\ cyc.parent = "waiting"
    /\ ~cyc.status
    /\ cyc' = [cyc EXCEPT !.parent = "returned", !.child = "unstarted",
                          !.command = FALSE, !.guards = NoGuards]
    /\ UNCHANGED <<cov_vars, reprl_vars, beside_cyc>>

\* cov_evaluate after the execution: the live bitmap is read
cyc_cov_evaluate ==
    /\ cyc.parent = "returned"
    /\ cyc' = [cyc EXCEPT !.parent = "idle"]
    /\ UNCHANGED <<cov_vars, reprl_vars, beside_cyc>>

InitCycle ==
    cyc = [child |-> "unstarted", parent |-> "idle", command |-> FALSE,
           status |-> FALSE, guards |-> NoGuards, bits |-> {},
           executed |-> {}, before |-> {}, runs |-> 0]

NextCycle ==
    \/ cyc_trace_pc_guard_init
    \/ \E g \in PreludeGuards \cup Hot : cyc_trace_pc_guard(g)
    \/ cyc_fetch_fuzz_input
    \/ cyc_write_status
    \/ cyc_reset_edgeguards
    \/ cyc_cov_clear_bitmap
    \/ cyc_reprl_execute
    \/ cyc_read_status
    \/ cyc_timeout
    \/ cyc_cov_evaluate

(***************************************************************************)
(* Threads of the child in __sanitizer_cov_trace_pc_guard                  *)
(* (njs_fuzzilli_module.c:209-219).  Neither *guard nor the byte of the    *)
(* bitmap is atomic: a trip is a load of the guard, a load of the byte, a  *)
(* store of the byte with the bit added, and a store of 0 to the guard,    *)
(* and the steps of different threads interleave.  thr.edges holds the     *)
(* bit numbers that are 1 in __shmem->edges, thr.tripped the guards a      *)
(* trip was started on since the guards were reset.                        *)
(***************************************************************************)
NumThreads == 2
MaxTrips == 2

Threads == 1 .. NumThreads

\* the guards the threads run through: 7 is the last bit of byte 0, 8 and 9
\* are two bits of byte 1
ThreadGuards == {7, 8, 9}

\* the bits of thr.edges that lie in the byte of bit number index
ByteOf(edges, index) == {b \in edges : b \div 8 = index \div 8}

NoTrip == [at |-> "out", guard |-> 0, index |-> 0, byte |-> {}, trips |-> 0]

\* a thread enters __sanitizer_cov_trace_pc_guard(guard)
thr_enter(t, g) ==
    /\ thr.t[t].at = "out"
    /\ thr.t[t].trips < MaxTrips
    /\ thr' = [thr EXCEPT !.t[t].at = "load_guard", !.t[t].guard = g,
                          !.t[t].trips = @ + 1,
                          !.tripped = @ \cup {g}]
    /\ UNCHANGED <<cov_vars, reprl_vars, beside_thr>>

\* uint32_t index = *guard; if (!index) return;
thr_load_guard(t) ==
    /\ thr.t[t].at = "load_guard"
    /\ LET index == thr.guards[thr.t[t].guard] IN
       thr' = [thr EXCEPT !.t[t].index = index,
                          !.t[t].at = IF index = 0 THEN "out" ELSE "load_byte"]
    /\ UNCHANGED <<cov_vars, reprl_vars, beside_thr>>

\* the read half of __shmem->edges[index / 8] |= 1 << (index % 8)
thr_load_byte(t) ==
    /\ thr.t[t].at = "load_byte"
    /\ thr' = [thr EXCEPT !.t[t].byte = ByteOf(thr.edges, thr.t[t].index),
                          !.t[t].at = "store_byte"]
    /\ UNCHANGED <<cov_vars, reprl_vars, beside_thr>>

\* the byte a thread stores: the byte it loaded with its bit added
StoredByte(edges, byte, index) == (edges \ ByteOf(edges, index)) \cup byte \cup {index}

\* the write half of __shmem->edges[index / 8] |= 1 << (index % 8)
thr_store_byte(t) ==
    /\ thr.t[t].at = "store_byte"
    /\ thr' = [thr EXCEPT !.edges = StoredByte(@, thr.t[t].byte, thr.t[t].index),
                          !.t[t].at = "store_guard"]
    /\ UNCHANGED <<cov_vars, reprl_vars, beside_thr>>

\* *guard = 0;
thr_store_guard(t) ==
    /\ thr.t[t].at = "store_guard"
    /\ thr' = [thr EXCEPT !.guards[thr.t[t].guard] = 0,
                          !.t[t].at = "out", !.t[t].byte = {}]
    /\ UNCHANGED <<cov_vars, reprl_vars, beside_thr>>

\* after __sanitizer_cov_reset_edgeguards and the parent's cov_clear_bitmap
InitThreads ==
    thr = [guards |-> [g \in ThreadGuards |-> g], edges |-> {},
           tripped |-> {}, t |-> [t \in Threads |-> NoTrip]]

NextThreads ==
    \/ \E t \in Threads, g \in ThreadGuards : thr_enter(t, g)
    \/ \E t \in Threads : thr_load_guard(t)
    \/ \E t \in Threads : thr_load_byte(t)
    \/ \E t \in Threads : thr_store_byte(t)
    \/ \E t \in Threads : thr_store_guard(t)

(***************************************************************************)
(* The start of forkserver() in the target (server.c:25-60): the greeting  *)
(* on fd 138 and fd 137, the comparison, and the fork loop.  The other end *)
(* of the two descriptors is any process: it may take the greeting or not, *)
(* and answer with four bytes, fewer, none, or an error.  hs.wrote and     *)
(* hs.nread keep what write and read returned (NotRun before the call).    *)
(***************************************************************************)
NotRun == 0 - 2

\* what read(rfd, helo, 4) can deliver: four bytes, fewer, or none
HeloReplies == {HELO, BadHelo, <<72, 69>>, <<72, 69, 76>>, <<88, 89>>, <<>>}

\* a buffer after read stored bytes at its start
Overwrite(buf, bytes) ==
    [i \in 1 .. Len(buf) |-> IF i <= Len(bytes) THEN bytes[i] ELSE buf[i]]

\* char helo[] = "HELO"; write(wfd, helo, 4) != 4 || ...: when the write
\* does not return 4 the read is not made and only a message is printed
forkserver_write_helo(n) ==
    /\ hs.at = "write_helo"
    /\ hs' = [hs EXCEPT !.wrote = n,
                        !.at = IF n = 4 THEN "read_helo" ELSE "memcmp"]
    /\ UNCHANGED <<cov_vars, reprl_vars, beside_hs>>

\* ... || read(rfd, helo, 4) != 4: only a message is printed
forkserver_read_helo(bytes, failed) ==
    /\ hs.at = "read_helo"
    /\ failed => bytes = <<>>
    /\ hs' = [hs EXCEPT !.nread = IF failed THEN 0 - 1 ELSE Len(bytes),
                        !.got = bytes,
                        !.helo = Overwrite(@, bytes),
                        !.at = "memcmp"]
    /\ UNCHANGED <<cov_vars, reprl_vars, beside_hs>>

\* if (memcmp(helo, "HELO", 4) != 0) _exit(-1);
forkserver_memcmp ==
    /\ hs.at = "memcmp"
    /\ hs' = [hs EXCEPT !.at = IF hs.helo # HELO THEN "exited" ELSE "loop_read"]
    /\ UNCHANGED <<cov_vars, reprl_vars, beside_hs>>

\* n = read(rfd, &buf, 4); if (n == 0) exit(0); if (n < 0) _exit(-1);
forkserver_loop_read(n) ==
    /\ hs.at = "loop_read"
    /\ hs.forked < MaxRuns
    /\ hs' = [hs EXCEPT !.at = IF n <= 0 THEN "exited" ELSE "fork"]
    /\ UNCHANGED <<cov_vars, reprl_vars, beside_hs>>

\* pid = fork() and the rest of the round, for a fork that succeeds
forkserver_loop_fork ==
    /\ hs.at = "fork"
    /\ hs' = [hs EXCEPT !.forked = @ + 1, !.at = "loop_read"]
    /\ UNCHANGED <<cov_vars, reprl_vars, beside_hs>>

InitHello ==
    hs = [at |-> "write_helo", helo |-> HELO, wrote |-> NotRun,
          nread |-> NotRun, got |-> <<>>, forked |-> 0]

NextHello ==
    \/ \E n \in {0 - 1, 2, 4} : forkserver_write_helo(n)
    \/ \E bytes \in HeloReplies, failed \in BOOLEAN : forkserver_read_helo(bytes, failed)
    \/ forkserver_memcmp
    \/ \E n \in {0 - 1, 0, 2, 4} : forkserver_loop_read(n)
    \/ forkserver_loop_fork

(***************************************************************************)
(* The width of edge_count.  context->edge_count[i]++ (coverage.c:206) is  *)
(* on a uint32_t, and a fuzzer evaluates for as long as it runs.  This     *)
(* machine is libcoverage with tracking enabled on a bitmap of three       *)
(* edges, where one step may stand for a run of cov_evaluate calls over    *)
(* the same live bitmap: the first call of the run is internal_evaluate,   *)
(* and each later call finds no new edge and adds 1 to the count of every  *)
(* live edge.                                                              *)
(***************************************************************************)
\* how many evaluation steps are explored
MaxEvaluations == 3

\* edges 0, 1 and 2
WrapNumEdges == 3

\* a + b on uint32_t, both held as the int32_t with the same bits
AddU32(a, b) ==
    LET lo == (a % 65536) + (b % 65536)
        hi == (((a \div 65536) % 65536) + ((b \div 65536) % 65536) + (lo \div 65536)) % 65536
    IN  (IF hi >= 32768 THEN hi - 65536 ELSE hi) * 65536 + (lo % 65536)

\* the lengths of a run of cov_evaluate calls: 1, 2, and 2^32 - 1
RunLengths == {1, 2, 0 - 1}

\* the shared bitmap with the edges of S set
WrapShm(S) == {BitAddr(EdgesOffset, i) : i \in S}

\* n calls of cov_evaluate over one live bitmap: the context after the
\* first, with n - 1 more added to the count of every live edge
EvaluateRun(shm, ctx, n) ==
    LET r == internal_evaluate(shm, ctx, ctx.virgin_bits)
        live == Live(shm, ctx.bitmap_size)
    IN  [ctx EXCEPT
           !.virgin_bits = r.virgin_bits,
           !.found_edges = Add32(@, Len(r.edge_indices)),
           !.edge_count = [i \in DOMAIN r.edge_count |->
                             IF edge(live, i) = 1
                             THEN AddU32(r.edge_count[i], AddU32(n, 0 - 1))
                             ELSE r.edge_count[i]]]

\* the child sets edges in the bitmap while it runs
ecw_child_runs(S) ==
    /\ ecw.ctx.phase = "ready"
    /\ S # {} /\ ~(S \subseteq Live(ecw.shm, ecw.ctx.bitmap_size))
    /\ ecw' = [ecw EXCEPT !.shm = @ \cup WrapShm(S)]
    /\ UNCHANGED <<cov_vars, reprl_vars, beside_ecw>>

ecw_cov_evaluate(n) ==
    /\ ecw.ctx.phase = "ready"
    /\ ecw.calls < MaxEvaluations
    /\ ecw' = [ecw EXCEPT !.ctx = EvaluateRun(ecw.shm, @, n), !.calls = @ + 1]
    /\ UNCHANGED <<cov_vars, reprl_vars, beside_ecw>>

ecw_cov_evaluate_crash ==
    /\ ecw.ctx.phase = "ready"
    /\ ecw.calls < MaxEvaluations
    /\ LET r == internal_evaluate(ecw.shm, ecw.ctx, ecw.ctx.crash_bits)
       IN  ecw' = [ecw EXCEPT !.ctx.crash_bits = r.virgin_bits,
                              !.ctx.edge_count = r.edge_count,
                              !.calls = @ + 1]
    /\ UNCHANGED <<cov_vars, reprl_vars, beside_ecw>>

ecw_cov_clear_bitmap ==
    /\ ecw.ctx.phase = "ready"
    /\ ecw.shm # {}
    /\ ecw' = [ecw EXCEPT !.shm = @ \ ByteRange(EdgesOffset, ecw.ctx.bitmap_size)]
    /\ UNCHANGED <<cov_vars, reprl_vars, beside_ecw>>

\* cov_clear_edge_data on an index from 1 on whose virgin bit is 0
ecw_cov_clear_edge_data(index) ==
    /\ ecw.ctx.phase = "ready"
    /\ edge(ecw.ctx.virgin_bits, index) = 0
    /\ IF ClearEdgeAsserts(ecw.ctx, index)
       THEN ecw' = [ecw EXCEPT !.ctx = ClearEdgeData(@, index)]
       ELSE ecw' = [ecw EXCEPT !.ctx.phase = "aborted"]
    /\ UNCHANGED <<cov_vars, reprl_vars, beside_ecw>>

ecw_cov_reset_state ==
    /\ ecw.ctx.phase = "ready"
    /\ ecw.calls > 0
    /\ ecw' = [ecw EXCEPT
                 !.ctx.virgin_bits = InitialBits(ecw.ctx.bitmap_size),
                 !.ctx.crash_bits = InitialBits(ecw.ctx.bitmap_size),
                 !.ctx.edge_count = [i \in 0 .. ecw.ctx.num_edges - 1 |-> 0],
                 !.ctx.found_edges = 0]
    /\ UNCHANGED <<cov_vars, reprl_vars, beside_ecw>>

\* after cov_finish_initialization(context, should_track_edges = 1)
InitWrap ==
    ecw = [ctx |-> [phase |-> "ready", should_track_edges |-> TRUE,
                    num_edges |-> WrapNumEdges,
                    bitmap_size |-> BitmapSize(WrapNumEdges),
                    virgin_bits |-> InitialBits(BitmapSize(WrapNumEdges)),
                    crash_bits |-> InitialBits(BitmapSize(WrapNumEdges)),
                    edge_count |-> [i \in 0 .. WrapNumEdges - 1 |-> 0],
                    found_edges |-> 0],
           shm |-> {}, calls |-> 0]

NextWrap ==
    \/ \E S \in SUBSET (1 .. WrapNumEdges - 1) : ecw_child_runs(S)
    \/ \E n \in RunLengths : ecw_cov_evaluate(n)
    \/ ecw_cov_evaluate_crash
    \/ ecw_cov_clear_bitmap
    \/ \E index \in 1 .. WrapNumEdges - 1 : ecw_cov_clear_edge_data(index)
    \/ ecw_cov_reset_state

Init ==
    /\ InitCov /\ InitReprl /\ InitSizes /\ InitFds /\ InitFork /\ InitWin
    /\ InitLeast /\ InitChannels /\ InitCycle /\ InitThreads /\ InitHello /\ InitWrap

SpecSizes == Init /\ [][NextSizes]_vars

SpecFds == Init /\ [][NextFds]_vars

SpecFork == Init /\ [][NextFork]_vars

SpecWin == Init /\ [][NextWin]_vars

SpecLeast == Init /\ [][NextLeast]_vars

SpecChannels == Init /\ [][NextChannels]_vars

SpecCycle == Init /\ [][NextCycle]_vars

SpecThreads == Init /\ [][NextThreads]_vars

SpecHello == Init /\ [][NextHello]_vars

SpecWrap == Init /\ [][NextWrap]_vars

SpecCov == Init /\ [][NextCov]_vars

SpecReprl == Init /\ [][NextReprl]_vars

\* The parent is a running thread and the kernel finishes every exit; nothing
\* obliges a child to take a step.
FairSpecReprl == SpecReprl /\ WF_vars(ParentStep) /\ WF_vars(KernelStep)

(***************************************************************************)
(* Properties of the coverage engine.                                      *)
(***************************************************************************)
\* the set of elements of a sequence
Range(seq) == {seq[k] : k \in 1 .. Len(seq)}
Ascending(seq) == \A k \in 1 .. Len(seq) - 1 : seq[k] < seq[k + 1]

\* C3: cov_evaluate returns, in ascending order, exactly the indices at
\* which the live bitmap and the virgin bitmap before the call were both 1;
\* after the call those virgin bits are 0 and every other virgin bit is
\* unchanged; it returns 1 if and only if that set is not empty.
C3_EvaluateNewEdges ==
    [][cov_evaluate =>
        LET both == {i \in context.virgin_bits : live_edge(shm_bits, i) = 1}
        IN  /\ Ascending(cov_ret'.edge_indices)
            /\ Range(cov_ret'.edge_indices) = both
            /\ context'.virgin_bits = context.virgin_bits \ both
            /\ cov_ret'.rv = 1 <=> both # {}
            /\ cov_ret'.rv \in {0, 1}]_vars

\* an evaluate has returned one new edge of each 64-bit word
C3_Witness ==
    /\ cov_ret.op = "cov_evaluate"
    /\ cov_ret.rv = 1
    /\ cov_ret.edge_indices = <<WordBits - 1, WordBits>>
    /\ context.virgin_bits = AllOnes(context.bitmap_size) \ {0, WordBits - 1, WordBits}

\* the number of cleared bits of virgin_bits, not counting bit 0
ClearedVirgin == Cardinality((AllOnes(context.bitmap_size) \ context.virgin_bits) \ {0})

\* C8: after cov_finish_initialization, through any sequence of
\* the parent's calls (clear_edge_data on any index whose virgin bit is 0),
\* found_edges equals the number of cleared bits of virgin_bits not
\* counting bit 0.
C8_FoundEdgesAnyIndex ==
    context.phase = "ready" => context.found_edges = ClearedVirgin

\* The equality of C8 does hold as long as bit 0 of virgin_bits is 0, that
\* is, as long as clear_edge_data was called only with indices >= 1 since the
\* bitmaps were last (re)initialized: index 0 is the only way to break it.
C8_FoundEdges ==
    (context.phase = "ready" /\ edge(context.virgin_bits, 0) = 0)
        => context.found_edges = ClearedVirgin

\* one found edge was handed to clear_edge_data, the other is still counted
C8_Witness ==
    /\ context.phase = "ready"
    /\ cov_ret.op = "cov_clear_edge_data"
    /\ cov_ret.edge_indices = <<WordBits>>
    /\ context.found_edges = 1
    /\ context.virgin_bits = AllOnes(context.bitmap_size) \ {0, WordBits - 1}

\* bit 0 of virgin_bits, of crash_bits and of the live bitmap, in the
\* parent's view and in the child's view of the region
BitZeroClear ==
    /\ edge(context.virgin_bits, 0) = 0
    /\ edge(context.crash_bits, 0) = 0
    /\ live_edge(shm_bits, 0) = 0
    /\ edge(shm_bits, BitAddr(ChildEdgesOffset(child_cov.layout), 0)) = 0

\* C9: bit 0 of the three bitmaps is 0 after
\* cov_finish_initialization and after every later operation, including
\* clear_edge_data with any index whose virgin bit is 0.
C9_BitZeroAnyIndex == context.phase = "ready" => BitZeroClear

\* cov_finish_initialization leaves bit 0 of the three bitmaps 0, and every
\* later operation other than clear_edge_data with index 0 keeps it 0: evaluate, evaluate_crash, clear_bitmap, compare_equal,
\* clear_edge_data with an index >= 1 whose virgin bit is 0, reset_state
\* and every guard trip in the child.
C9_BitZero ==
    [][(/\ context'.phase = "ready"
        /\ context.phase = "ready" => BitZeroClear
        /\ ~cov_clear_edge_data(0))
       => BitZeroClear']_vars

\* both hot guards have tripped, both edges were found, and one of them was
\* handed to clear_edge_data; bit 0 is still clear everywhere
C9_Witness ==
    /\ context.phase = "ready"
    /\ cov_ret.op = "cov_clear_edge_data"
    /\ cov_ret.edge_indices = <<WordBits - 1>>
    /\ \A g \in Hot : child_cov.guards[g] = 0
    /\ context.found_edges = 1
    /\ BitZeroClear

\* ---------------------------------------------------------------------------
\* libreprl: properties
\* ---------------------------------------------------------------------------

\* The step in which write(ctrl_out, "exec", 4) succeeds.
ExecSent == pc = "write_exec" /\ pc' = "write_size"

\* No child is recorded and both control descriptors are closed.
NoChildRecorded(c, pp) ==
    /\ c.pid = 0
    /\ \A k \in Pids : (k = c.ctrl_in => ~pp[k].p_in) /\ (k = c.ctrl_out => ~pp[k].p_out)

\* A call that may not go on using a child spawns one, and "exec" goes only
\* to a running child that has completed the HELO handshake.
SpawnsBeforeExec ==
    ExecSent => /\ Alive(reprl_ctx.pid) /\ procs[reprl_ctx.pid].helo
                /\ loc.entry_pid = 0 => loc.spawned
                /\ loc.spawned => reprl_ctx.pid # loc.entry_pid

\* C1: when poll times out, reprl_execute sends SIGKILL to the child, waits
\* for it (it is reaped), returns exactly 1 << 16 and leaves the context with
\* pid 0 and both control pipe ends closed; a call that starts without a child
\* spawns one and completes the handshake before it sends "exec".
C1_TimeoutKillsChild ==
    [][/\ (pc = "waitpid" /\ loc.after = "status" /\ pc' = "idle")
          => /\ loc.killed = reprl_ctx.pid
             /\ procs'[reprl_ctx.pid].state = "reaped"
             /\ ret' = [op |-> "reprl_execute", value |-> 65536]
             /\ NoChildRecorded(reprl_ctx', pipes')
       /\ SpawnsBeforeExec]_vars

\* A timeout has been returned and the dead child is no longer recorded.
C1_Witness ==
    /\ pc = "idle" /\ ret = [op |-> "reprl_execute", value |-> 65536]
    /\ reprl_ctx.pid = 0 /\ reprl_ctx.ctrl_in # 0

\* C2: when the status read is short and waitpid reaps the child, reprl_execute
\* returns the terminating signal in bits 0-7, or the exit code shifted left by
\* 8, and leaves the context without a child, so that the next call spawns one.
C2_ShortReadReaped ==
    [][/\ (pc = "waitpid_loop" /\ pc' = "idle")
          => /\ ret'.op = "reprl_execute"
             /\ ret'.value = IF procs[reprl_ctx.pid].how = "signal"
                             THEN procs[reprl_ctx.pid].val
                             ELSE procs[reprl_ctx.pid].val * 256
             /\ procs'[reprl_ctx.pid].state = "reaped"
             /\ NoChildRecorded(reprl_ctx', pipes')
       /\ (pc = "lseek" /\ reprl_ctx.pid = 0) => pc' = "spawn"
       /\ ExecSent => (loc.entry_pid = 0 => loc.spawned)]_vars

\* A crash has been reported as signal 11 and an exit as code 7.
C2_Witness ==
    /\ pc = "idle" /\ ret.op = "reprl_execute" /\ ret.value \in {SIGSEGV, 7 * 256}
    /\ reprl_ctx.pid = 0 /\ reprl_ctx.ctrl_in # 0

\* C4: a script_length above REPRL_MAX_DATA_SIZE makes reprl_execute return a
\* negative value at once: the child, the pipes and the data channels with their
\* file positions are untouched, fresh_instance or not; a script_length of
\* exactly REPRL_MAX_DATA_SIZE is accepted.
C4_ScriptTooLarge ==
    [][\A timeout \in Timeouts, fresh_instance \in BOOLEAN :
         /\ reprl_execute(REPRL_MAX_DATA_SIZE + 1, timeout, fresh_instance)
              => /\ pc' = "idle"
                 /\ ret'.op = "reprl_execute" /\ ret'.value < 0
                 /\ UNCHANGED <<procs, pipes, chan>>
                 /\ reprl_ctx' = [reprl_ctx EXCEPT !.last_error = "error"]
         /\ (reprl_execute(REPRL_MAX_DATA_SIZE, timeout, fresh_instance)
               /\ reprl_ctx.initialized = 1)
              => pc' # "idle"]_vars

\* An error has been returned although no system call failed and the child
\* is alive with its pipes open: the size check, with a child that has read a
\* script, so that a file position is not 0.
C4_Witness ==
    /\ pc = "idle" /\ ret = [op |-> "reprl_execute", value |-> -1]
    /\ interrupts = 0 /\ reprl_ctx.initialized = 1
    /\ reprl_ctx.pid # 0 /\ Alive(reprl_ctx.pid)
    /\ procs[reprl_ctx.pid].at = "wait_cmd" /\ procs[reprl_ctx.pid].owed = 0
    /\ chan.data_out_pos > 0

\* C5: whenever the parent is outside a call and the context records a live
\* child, every "exec" sent to that child has had its status read.
C5_RoundTrip ==
    (pc = "idle" /\ reprl_ctx.pid # 0 /\ Alive(reprl_ctx.pid))
       => procs[reprl_ctx.pid].owed = 0

\* C6: every reprl_execute call returns, whatever the child does.
C6_ExecuteReturns == (loc.op = "reprl_execute") ~> (pc = "idle")

\* C7: whenever the parent is outside reprl_execute, no child is running
\* script code.
C7_NoConcurrentUse ==
    pc = "idle" => \A p \in Pids : ~(Alive(p) /\ procs[p].at = "script")

\* The three fields of a REPRL status.
RTERMSIG(status) == status % 256

REXITSTATUS(status) == (status \div 256) % 256

DidTimeout(status) == (status \div 65536) % 256

\* C10: in every non-negative status reprl_execute returns, at most one of
\* the terminating signal, the exit code and did_timeout is nonzero.
C10_OneField ==
    (ret.op = "reprl_execute" /\ ret.value >= 0)
       => Cardinality({f \in {"signal", "exit", "timeout"} :
                          CASE f = "signal"  -> RTERMSIG(ret.value) # 0
                            [] f = "exit"    -> REXITSTATUS(ret.value) # 0
                            [] f = "timeout" -> DidTimeout(ret.value) # 0}) <= 1

\* A step in which reprl_execute returns to its caller.
ExecuteReturns == ret' # ret /\ ret'.op = "reprl_execute"

\* C11: a value reprl_execute returns that is not an error (-1) has a bit
\* above bit 15 set only when it comes from the timeout path, after poll
\* timed out and the child was sent SIGKILL, and then it is exactly 1 << 16;
\* a status word of the child, whatever its upper 16 bits, and a wait status
\* give a value below 1 << 16.
C11_TimeoutBitOnlyOnTimeout ==
    [][(ExecuteReturns /\ ret'.value \notin 0 .. 65535)
         => \/ ret'.value = -1
            \/ /\ pc = "waitpid" /\ loc.after = "status"
               /\ loc.killed = reprl_ctx.pid
               /\ ret'.value = 65536]_vars

\* The child is still there after a status of 0x0700 was returned: the word
\* it wrote was 0xffff0700.
C11_Witness ==
    /\ pc = "idle" /\ ret = [op |-> "reprl_execute", value |-> 1792]
    /\ reprl_ctx.pid # 0 /\ Alive(reprl_ctx.pid)

\* The low 16 bits of the word whose bytes are b, least significant first.
Low16(b) == b[1] + 256 * b[2]

\* C12: when the read of the status delivers four bytes, reprl_execute
\* returns the low 16 bits of that word and leaves the context, the child and the pipes as
\* they are; a call without fresh_instance that finds a child recorded sends
\* its "exec" to that child and neither spawns nor handshakes.
C12_StatusKeepsChild ==
    [][/\ (reprl_execute_read_status /\ Len(pipes[reprl_ctx.ctrl_in].cr) >= 4)
          => /\ pc' = "idle"
             /\ ret' = [op |-> "reprl_execute",
                        value |-> Low16(pipes[reprl_ctx.ctrl_in].cr)]
             /\ UNCHANGED reprl_ctx
             /\ procs'[reprl_ctx.pid].state = procs[reprl_ctx.pid].state
             /\ pipes'[reprl_ctx.pid].p_in /\ pipes'[reprl_ctx.pid].p_out
       /\ (ExecSent /\ loc.entry_pid # 0)
          => /\ ~loc.spawned
             /\ reprl_ctx.pid = loc.entry_pid
             /\ procs[reprl_ctx.pid].helo]_vars

\* A second "exec" has gone to the child of an earlier call.
C12_Witness ==
    /\ pc = "write_size" /\ loc.entry_pid # 0 /\ reprl_ctx.pid = loc.entry_pid
    /\ ~loc.spawned /\ interrupts = 0
    /\ procs[reprl_ctx.pid].owed = 1

\* The children of the context that exist as processes: running, dying, or
\* dead and not yet reaped.
Existing == {p \in Pids : procs[p].state \in {"running", "dying", "zombie"}}

\* C13: reprl_execute with fresh_instance and a child recorded sends SIGKILL
\* to that child and reaps it before it spawns; the "exec" of the call goes to
\* a child spawned and handshaken during the call; never do two children of
\* the context exist.
C13_FreshInstance ==
    /\ [](Cardinality(Existing) <= 1)
    /\ [][/\ (pc = "waitpid" /\ pc' # pc /\ loc.after = "lseek")
             => /\ loc.killed = reprl_ctx.pid
                /\ procs'[reprl_ctx.pid].state = "reaped"
                /\ pc' = "lseek" /\ reprl_ctx'.pid = 0
          /\ pc = "spawn" => Existing = {}
          /\ (ExecSent /\ loc.killed # 0)
             => /\ loc.spawned /\ reprl_ctx.pid # loc.killed
                /\ procs[reprl_ctx.pid].helo /\ Alive(reprl_ctx.pid)]_vars

\* The old child was killed in this call and "exec" has gone to the new one.
C13_Witness ==
    /\ pc = "write_size" /\ loc.killed # 0 /\ loc.spawned
    /\ procs[loc.killed].state = "reaped" /\ Alive(reprl_ctx.pid)

\* C14: a failed write of "exec" or of the length leads to the non-blocking
\* waitpid and to a negative return, never to the wait for a status; if the
\* child is a zombie it is reaped and the context is left without a child and
\* with both control descriptors closed, so that the next call spawns; if not,
\* the child, the pid and the pipes are left as they were.
C14_WriteFailure ==
    [][/\ (pc \in {"write_exec", "write_size"} /\ pc' # pc
                /\ ~Writable(pipes[reprl_ctx.ctrl_out]))
          => pc' = "write_failed" /\ UNCHANGED <<reprl_ctx, procs, pipes>>
       /\ (pc = "write_failed" /\ pc' # pc)
          => /\ pc' = "idle" /\ ret' = [op |-> "reprl_execute", value |-> -1]
             /\ IF procs[reprl_ctx.pid].state = "zombie"
                THEN /\ procs'[reprl_ctx.pid].state = "reaped"
                     /\ NoChildRecorded(reprl_ctx', pipes')
                ELSE /\ reprl_ctx'.pid = reprl_ctx.pid
                     /\ reprl_ctx'.ctrl_in = reprl_ctx.ctrl_in
                     /\ reprl_ctx'.ctrl_out = reprl_ctx.ctrl_out
                     /\ UNCHANGED <<procs, pipes>>
       /\ (pc = "lseek" /\ pc' # pc /\ reprl_ctx.pid = 0) => pc' = "spawn"]_vars

\* A write has failed and the child is a zombie the waitpid will find.
C14_Witness ==
    /\ pc = "write_failed" /\ procs[reprl_ctx.pid].state = "zombie"
    /\ ~loc.spawned

\* Both control descriptors of the context are open.
CtrlOpen(c, pp) ==
    /\ c.ctrl_in \in Pids /\ pp[c.ctrl_in].p_in
    /\ c.ctrl_out \in Pids /\ pp[c.ctrl_out].p_out

\* One of the control descriptors of the context is open.
CtrlHalfOpen(c, pp) ==
    \/ c.ctrl_in \in Pids /\ pp[c.ctrl_in].p_in
    \/ c.ctrl_out \in Pids /\ pp[c.ctrl_out].p_out

\* C15: whenever the parent is outside a call, the pid is nonzero if and
\* only if both control descriptors are open, and with pid 0 none is open;
\* the step that clears the pid closes both, and no other step closes one.
C15_PidIffPipes ==
    /\ [](pc = "idle" => /\ reprl_ctx.pid # 0 <=> CtrlOpen(reprl_ctx, pipes)
                         /\ reprl_ctx.pid = 0 => ~CtrlHalfOpen(reprl_ctx, pipes))
    /\ [][/\ (reprl_ctx.pid # 0 /\ reprl_ctx'.pid = 0)
             => ~CtrlHalfOpen(reprl_ctx', pipes')
          /\ (CtrlOpen(reprl_ctx, pipes) /\ ~CtrlOpen(reprl_ctx', pipes'))
             => (reprl_ctx'.pid = 0 /\ ~CtrlHalfOpen(reprl_ctx', pipes'))]_vars

\* An error has been returned and the dead child is no longer recorded.
C15_Witness ==
    /\ pc = "idle" /\ ret = [op |-> "reprl_execute", value |-> -1]
    /\ reprl_ctx.pid = 0 /\ reprl_ctx.ctrl_in \in Pids
    /\ procs[reprl_ctx.ctrl_in].state = "reaped"

\* The sum of edge_count[0 .. n - 1].
RECURSIVE SumCounts(_, _)
SumCounts(edge_count, n) ==
    IF n = 0 THEN 0 ELSE edge_count[n - 1] + SumCounts(edge_count, n - 1)

\* C16: when the last cov_evaluate found edge i as its only new edge, so that
\* before it virgin bit i was 1, found_edges was one less and, with tracking,
\* edge_count[i] was one less than they are now, cov_clear_edge_data(i) gives
\* virgin bit i, found_edges and edge_count[i] the values they had before that
\* cov_evaluate.
C16_ClearUndoesEvaluate ==
    [][\A i \in Hot :
         (/\ cov_ret = Ret("cov_evaluate", 1, <<i>>)
          /\ cov_clear_edge_data(i))
         => /\ edge(context'.virgin_bits, i) = 1
            /\ context'.found_edges = Dec32(context.found_edges)
            /\ context.should_track_edges
               => context'.edge_count[i] = context.edge_count[i] - 1]_vars

\* C17: with tracking, a cov_evaluate adds the number of bits set in the live
\* bitmap to the sum of edge_count, and no other step than cov_evaluate,
\* cov_clear_edge_data, cov_reset_state and cov_finish_initialization changes
\* that sum: after k calls of cov_evaluate the sum has grown by the sum of
\* the k bit counts.
C17_SumOfCounts ==
    [][(/\ context.phase = "ready" /\ context.should_track_edges
        /\ ~cov_reset_state
        /\ ~ \E index \in ClearIndices : cov_clear_edge_data(index))
       => SumCounts(context'.edge_count, context.num_edges)
            = SumCounts(context.edge_count, context.num_edges)
              + (IF cov_evaluate THEN Cardinality(LiveEdges) ELSE 0)]_vars

\* C18: cov_evaluate_crash changes nothing of the context but crash_bits, of
\* which it clears the bits of the live edges, and it returns 1 exactly when
\* it cleared one.
C18_CrashKeepsCounts ==
    [][cov_evaluate_crash
       => /\ context' = [context EXCEPT !.crash_bits = context.crash_bits \ LiveEdges]
          /\ cov_ret'.rv = (IF context'.crash_bits # context.crash_bits THEN 1 ELSE 0)]_vars

\* C19: cov_compare_equal returns 1 exactly when every index of the list is
\* set in the live bitmap: 1 for the empty list, 1 when the live bitmap holds
\* exactly the indices of the list, 0 when it holds all of them but one; and
\* it changes nothing of the context and of the shared memory.
C19_CompareEqual ==
    [][\A S \in SUBSET Hot :
         cov_compare_equal(SeqOfSet(S))
         => /\ cov_ret'.rv \in {0, 1}
            /\ cov_ret'.rv = 1 <=> S \subseteq LiveEdges
            /\ S = {} => cov_ret'.rv = 1
            /\ LiveEdges = S => cov_ret'.rv = 1
            /\ \A x \in S : LiveEdges = S \ {x} => cov_ret'.rv = 0
            /\ UNCHANGED <<context, shm_bits, shm_num_edges, child_cov>>]_vars

\* cov_compare_equal has found both edges of its list set
C19_Witness ==
    /\ cov_ret = Ret("cov_compare_equal", 1, <<WordBits - 1, WordBits>>)
    /\ LiveEdges = Hot

\* C20: cov_reset_state leaves virgin_bits and crash_bits with every bit but
\* bit 0 set, edge_count (if there is one) all 0 and found_edges 0, as
\* cov_finish_initialization left them, and changes neither num_edges nor
\* bitmap_size nor the shared memory; a cov_evaluate that follows it reports
\* every live edge as new.
C20_ResetState ==
    [][/\ cov_reset_state
          => /\ context'.virgin_bits = AllOnes(context.bitmap_size) \ {0}
             /\ context'.crash_bits = AllOnes(context.bitmap_size) \ {0}
             /\ context'.edge_count =
                   IF context.should_track_edges
                   THEN [i \in 0 .. context.num_edges - 1 |-> 0]
                   ELSE <<>>
             /\ context'.found_edges = 0
             /\ context'.num_edges = context.num_edges
             /\ context'.bitmap_size = context.bitmap_size
             /\ context'.should_track_edges = context.should_track_edges
             /\ UNCHANGED <<shm_bits, shm_num_edges>>
       /\ (cov_ret.op = "cov_reset_state" /\ cov_evaluate)
          => /\ Range(cov_ret'.edge_indices) = LiveEdges
             /\ context'.found_edges = Cardinality(LiveEdges)]_vars

\* cov_reset_state has returned with tracking enabled and both edges live
C20_Witness ==
    /\ cov_ret.op = "cov_reset_state"
    /\ context.should_track_edges
    /\ LiveEdges = Hot
    /\ context.virgin_bits = AllOnes(context.bitmap_size) \ {0}
    /\ context.found_edges = 0

\* written is one of 1 .. MAX_EDGES, as a uint32_t
InOneToMaxEdges(written) == written >= 1 /\ written <= MAX_EDGES

\* C21: cov_finish_initialization fails with NotInstrumented when the child
\* wrote 0, with TooManyEdges when it wrote more than MAX_EDGES, and then
\* allocates nothing; for every value in 1 .. MAX_EDGES it succeeds.
C21_FinishFailsExactly ==
    sizing.phase \in {"ready", "exited"}
    => /\ sizing.phase = "exited" <=> ~InOneToMaxEdges(sizing.written)
       /\ sizing.phase = "exited" => ~sizing.allocated
       /\ sizing.failure = (IF sizing.written = 0 THEN "NotInstrumented"
                            ELSE IF InOneToMaxEdges(sizing.written) THEN "none"
                            ELSE "TooManyEdges")

\* num_edges + 1 bits in whole bytes, rounded up to a multiple of 8 bytes
RoundedBytes(written) ==
    LET bytes == ((written + 1) + 7) \div 8
    IN  ((bytes + 7) \div 8) * 8

\* C23: after a cov_finish_initialization that succeeded, bitmap_size is
\* num_edges + 1 bits rounded up to whole bytes and to a multiple of 8, and
\* the bitmap_size bytes at the offset of edges end inside the region of
\* SHM_SIZE bytes.
C23_BitmapInsideRegion ==
    sizing.phase = "ready"
    => /\ InOneToMaxEdges(sizing.written)
          => sizing.bitmap_size = RoundedBytes(sizing.written)
       /\ EdgesOffset + sizing.bitmap_size <= SHM_SIZE

\* C22: the child's header puts the edges array at the offset, and gives the
\* region the size, that the parent's header does; and a guard trip that sets
\* bit i in the child's view leaves bit i of the parent's live bitmap set.
C22_SameByteAndBit ==
    [][\A g \in Hot :
         (sanitizer_cov_trace_pc_guard(g) /\ child_cov.guards[g] # 0)
         => /\ ChildEdgesOffset(child_cov.layout) = EdgesOffset
            /\ ChildShmSize(child_cov.layout) = SHM_SIZE
            /\ child_cov.guards[g] \in 1 .. shm_num_edges
            /\ live_edge(shm_bits', child_cov.guards[g]) = 1]_vars

\* C25: reprl_initialize_context on an initialized context and reprl_execute
\* on a context that is not initialized return -1 at once, change nothing of
\* the context but last_error, and leave the children, the pipes and the
\* data channels as they were.
C25_LifecycleMisuse ==
    [][/\ ((\E channels_ok \in BOOLEAN : reprl_initialize_context(channels_ok))
           /\ reprl_ctx.initialized = 1)
          => /\ ret' = [op |-> "reprl_initialize_context", value |-> -1]
             /\ reprl_ctx' = [reprl_ctx EXCEPT !.last_error = reprl_ctx'.last_error]
             /\ reprl_ctx'.last_error # ""
             /\ UNCHANGED <<pc, procs, pipes, chan>>
       /\ ((\E script_length \in ScriptLengths, timeout \in Timeouts,
               fresh_instance \in BOOLEAN :
                 reprl_execute(script_length, timeout, fresh_instance))
           /\ reprl_ctx.initialized = 0)
          => /\ ret' = [op |-> "reprl_execute", value |-> -1]
             /\ reprl_ctx' = [reprl_ctx EXCEPT !.last_error = reprl_ctx'.last_error]
             /\ reprl_ctx'.last_error # ""
             /\ UNCHANGED <<pc, procs, pipes, chan>>]_vars

\* a second reprl_initialize_context was rejected while a child is running
C25_Witness ==
    /\ pc = "idle" /\ ret = [op |-> "reprl_initialize_context", value |-> -1]
    /\ reprl_ctx.initialized = 1
    /\ reprl_ctx.pid # 0 /\ Alive(reprl_ctx.pid)


\* ---------------------------------------------------------------------------
\* Properties of the descriptor tables.
\* ---------------------------------------------------------------------------

WellKnownFds ==
    {REPRL_CHILD_CTRL_IN, REPRL_CHILD_CTRL_OUT, REPRL_CHILD_DATA_IN,
     REPRL_CHILD_DATA_OUT}

\* the descriptor fd of table t is open on this file
OpenOn(t, fd, file) == IsOpen(t, fd) /\ Entry(t, fd).file = file

\* the contexts whose child has reached execve
Execed == {i \in 1 .. Len(fdt.contexts) :
              fdt.contexts[i].pid # 0 /\ fdt.contexts[i].child_execve}

\* the descriptors the parent holds for context i
ParentFds(i) ==
    {fdt.contexts[i].ctrl_in, fdt.contexts[i].ctrl_out,
     fdt.contexts[i].data_in, fdt.contexts[i].data_out,
     fdt.contexts[i].child_stdout, fdt.contexts[i].child_stderr} \ {NoFd}

\* C29: in every REPRL child at execve, descriptor 100 is the read end of
\* the parent-to-child pipe, 101 the write end of the child-to-parent pipe,
\* 102 the script channel and 103 the fuzzout channel, and none of the
\* parent's own pipe or channel descriptors has one of these four numbers.
C29_ChildDescriptors ==
    \A i \in Execed :
        /\ OpenOn(fdt.contexts[i].child_fds, REPRL_CHILD_CTRL_IN,
                  ReprlPipe(i, "cwpipe", "r"))
        /\ OpenOn(fdt.contexts[i].child_fds, REPRL_CHILD_CTRL_OUT,
                  ReprlPipe(i, "crpipe", "w"))
        /\ OpenOn(fdt.contexts[i].child_fds, REPRL_CHILD_DATA_IN,
                  MemFd(i, "data_out"))
        /\ OpenOn(fdt.contexts[i].child_fds, REPRL_CHILD_DATA_OUT,
                  MemFd(i, "data_in"))
        /\ ParentFds(i) \cap WellKnownFds = {}

\* the files of the pipe ends the parent holds, for the contexts other than
\* skip_context and the forkservers other than skip_server
PipeEndsHeld(skip_context, skip_server) ==
    UNION {{Entry(fdt.parent, fdt.contexts[j].ctrl_in).file,
            Entry(fdt.parent, fdt.contexts[j].ctrl_out).file} :
              j \in {k \in 1 .. Len(fdt.contexts) :
                        k # skip_context /\ fdt.contexts[k].pid # 0}}
    \cup
    UNION {{Entry(fdt.parent, fdt.servers[j].rfd).file,
            Entry(fdt.parent, fdt.servers[j].wfd).file,
            Entry(fdt.parent, fdt.servers[j].outfd).file} :
              j \in (1 .. Len(fdt.servers)) \ {skip_server}}

FilesOf(t) == {Entry(t, fd).file : fd \in OpenFds(t)}

\* C30: after execve no child holds a pipe end that the parent holds for
\* another REPRL context or another forkserver.
C30_NoForeignPipeEnds ==
    /\ \A i \in Execed :
          FilesOf(fdt.contexts[i].child_fds) \cap PipeEndsHeld(i, 0) = {}
    /\ \A i \in 1 .. Len(fdt.servers) :
          FilesOf(fdt.servers[i].child_fds) \cap PipeEndsHeld(0, i) = {}

\* the REPRL half of C30, with the forkservers' pipe ends left out
ReprlPipeEndsStayPrivate ==
    /\ \A i \in Execed :
          \A f \in FilesOf(fdt.contexts[i].child_fds) \cap PipeEndsHeld(i, 0) :
              f.kind # "reprl pipe"
    /\ \A i \in 1 .. Len(fdt.servers) :
          \A f \in FilesOf(fdt.servers[i].child_fds) \cap PipeEndsHeld(0, i) :
              f.kind # "reprl pipe"

\* ---------------------------------------------------------------------------
\* Properties of the forkserver.
\* ---------------------------------------------------------------------------

SupervisorAlive == fsv.sup.at # "exited"

Running == {g \in DOMAIN fsv.gc : fsv.gc[g].state = "running"}

Unreaped == {g \in DOMAIN fsv.gc : fsv.gc[g].state \in {"running", "zombie"}}

\* the words written to descriptor 138: pid of 1, status of 1, pid of 2, ...
PidThenStatus ==
    \A k \in 1 .. Len(fsv.sent) :
        IF k % 2 = 1
        THEN fsv.sent[k] = PidWord((k + 1) \div 2)
        ELSE fsv.sent[k].kind = "status" /\ fsv.sent[k].of = k \div 2

\* one grandchild forked for each token read
OneForkPerToken ==
    /\ fsv.sup.at \in {"read", "waitpid"} => fsv.sup.forked = fsv.sup.tokens
    /\ fsv.sup.forked \in {fsv.sup.tokens - 1, fsv.sup.tokens}

\* what forkserver_spawn returned is the pid of one grandchild and the
\* wait status of the same one
SameGrandchild ==
    /\ fsv.result.pid.kind = "pid"
    /\ fsv.result.status.kind = "status"
    /\ fsv.result.status.of = fsv.result.pid.of

\* C28: the supervisor forks exactly one grandchild for each token it reads,
\* writes the pid and then the wait status of that grandchild, reads the
\* next token only after it has reaped the grandchild, so that at most one
\* grandchild is alive; and while the supervisor is alive the pid and the
\* status that forkserver_spawn returns belong to the same grandchild.
C28_ForkserverProtocol ==
    /\ [](/\ OneForkPerToken
          /\ PidThenStatus
          /\ Cardinality(Running) <= 1
          /\ (fsv.result.returned /\ SupervisorAlive) => SameGrandchild)
    /\ [][sup_read => Unreaped = {}]_vars

\* the supervisor's half of C28
SupervisorProtocol ==
    /\ [](OneForkPerToken /\ PidThenStatus /\ Cardinality(Running) <= 1)
    /\ [][sup_read => Unreaped = {}]_vars

\* ---------------------------------------------------------------------------
\* Properties of the REPRL context on Windows.
\* ---------------------------------------------------------------------------

\* the events begin with these
BeginsWith(events, first) ==
    Len(events) >= Len(first) /\ SubSeq(events, 1, Len(first)) = first

\* C26: reprl_create_context and reprl_initialize_context spawn no child,
\* and the first reprl_execute on a fresh initialized context, with or
\* without fresh_instance, finds no child recorded, spawns one and completes
\* the HELO handshake before it sends "exec" (the system making every pipe
\* and process it is asked for, and the child sending HELO).
C26_FirstExecuteSpawns ==
    [][/\ (win.executes = 0 /\ win'.executes = 0) => win'.children = 0
       /\ \A script_size \in ScriptLengths \ {REPRL_MAX_DATA_SIZE + 1},
             timeout \in SpawnTimeouts, fresh_instance \in BOOLEAN,
             wait \in WaitResults, status \in StatusWords :
            (/\ win.initialized = 1
             /\ win.executes = 0
             /\ win_reprl_execute(script_size, timeout, fresh_instance, TRUE,
                                  TRUE, TRUE, TRUE, wait, status))
            => BeginsWith(win'.events, <<"spawn", "helo", "exec">>)]_vars

\* ---------------------------------------------------------------------------
\* Properties of the least-visited-edges query.
\* ---------------------------------------------------------------------------

\* the edges with a positive count before the last call
PositiveBefore == {i \in DOMAIN lve.last.before : lve.last.before[i] > 0}

Returned == {lve.last.indices[k] : k \in 1 .. Len(lve.last.indices)}

\* C27: with tracking and desired > 0 the call returns min(desired, number
\* of edges with a positive count) distinct indices, each with a positive
\* count, and no edge left out has a positive count smaller than that of a
\* returned edge; for the counts [_, 0, 5, 1, 3, 1, 10, 2] and desired 3 it
\* returns {3, 5, 7}; without tracking it fails.
C27_LeastVisited ==
    lve.calls > 0 =>
       IF ~lve.should_track_edges THEN lve.last.failed
       ELSE lve.last.desired > 0 =>
          /\ ~lve.last.failed
          /\ Len(lve.last.indices)
                = Min(lve.last.desired, Cardinality(PositiveBefore))
          /\ Cardinality(Returned) = Len(lve.last.indices)
          /\ Returned \subseteq PositiveBefore
          /\ \A out \in PositiveBefore \ Returned, i \in Returned :
                lve.last.before[out] >= lve.last.before[i]
          /\ (lve.last.before = ScenarioCounts /\ lve.last.desired = 3)
                => Returned = {3, 5, 7}

\* C27 without its last clause about the edges left out
LeastVisitedCardinality ==
    (lve.calls > 0 /\ lve.should_track_edges /\ lve.last.desired > 0) =>
          /\ ~lve.last.failed
          /\ Len(lve.last.indices)
                = Min(lve.last.desired, Cardinality(PositiveBefore))
          /\ Cardinality(Returned) = Len(lve.last.indices)
          /\ Returned \subseteq PositiveBefore
          /\ (lve.last.before = ScenarioCounts /\ lve.last.desired = 3)
                => Returned = {3, 5, 7}

\* ---------------------------------------------------------------------------
\* Properties of the data channels.
\* ---------------------------------------------------------------------------

\* k bytes that were all written after the execute-th reprl_execute began
BytesOf(k, execute) == IF k = 0 THEN <<>> ELSE <<[n |-> k, tag |-> execute]>>

\* C24: after an execute during which the child wrote k bytes, none NUL, to
\* descriptor 103, reprl_fetch_fuzzout returns the string of the first
\* min(k, REPRL_MAX_DATA_SIZE - 1) bytes written in that execution and no
\* byte left from an earlier one; reprl_fetch_stdout and reprl_fetch_stderr
\* return the empty string when the stream is not captured.
C24_FetchContent ==
    /\ dch.last.name = "data_in" =>
          /\ StrLen(dch.last.string)
                = Min(dch.last.written, REPRL_MAX_DATA_SIZE - 1)
          /\ dch.last.string
                = BytesOf(Min(dch.last.written, REPRL_MAX_DATA_SIZE - 1),
                          dch.last.execute)
    /\ (dch.last.name \in {"child_stdout", "child_stderr"}
        /\ ~dch.channel[dch.last.name].open) => dch.last.string = <<>>

\* A second execution wrote fewer bytes than the first, whose bytes are
\* still in the mapping behind the NUL, and the fetch returned the new ones.
C24_Witness ==
    /\ dch.last.name = "data_in"
    /\ dch.last.execute = 2
    /\ dch.last.written = 1
    /\ dch.last.string = BytesOf(1, 2)
    /\ \E k \in 1 .. Len(dch.channel["data_in"].mapping) :
          dch.channel["data_in"].mapping[k].tag = 1
    /\ ~dch.channel["child_stderr"].open

\* a fetch of the longest output returned REPRL_MAX_DATA_SIZE - 1 bytes
FetchCapped ==
    /\ dch.last.name = "data_in"
    /\ dch.last.written > REPRL_MAX_DATA_SIZE
    /\ StrLen(dch.last.string) = REPRL_MAX_DATA_SIZE - 1

\* ---------------------------------------------------------------------------
\* The HELO handshake of reprl_spawn_child.
\* ---------------------------------------------------------------------------

\* the errors reprl_spawn_child records when the handshake fails
HeloErrors ==
    {"Did not receive HELO message from child",
     "Received invalid HELO message from child",
     "Failed to send HELO reply message to child"}

\* the step in which reprl_spawn_child returns 0
SpawnSucceeds == pc = "write_helo" /\ pc' = "memcpy"

\* C31: reprl_spawn_child succeeds only after the parent has read exactly the
\* four bytes "HELO" and has written them back; when the read is short, the
\* bytes differ or the echo fails, the child is sent SIGKILL and reaped, the
\* context records no child, reprl_execute returns -1, and no "exec" is sent.
C31_HeloHandshake ==
    [][/\ (pc = "read_helo" /\ pc' = "write_helo")
             => ReadFour(pipes[reprl_ctx.ctrl_in]) = HELO
       /\ (pc = "read_helo" /\ pc' # pc /\ ReadFour(pipes[reprl_ctx.ctrl_in]) # HELO)
             => pc' = "kill" /\ loc'.after = "error" /\ loc'.err \in HeloErrors
       /\ SpawnSucceeds
             => /\ Writable(pipes[reprl_ctx.ctrl_out])
                /\ pipes'[reprl_ctx.ctrl_out].cw
                      = Append(pipes[reprl_ctx.ctrl_out].cw, [tag |-> "HELO", n |-> 0])
       /\ (pc = "write_helo" /\ pc' # pc /\ ~Writable(pipes[reprl_ctx.ctrl_out]))
             => pc' = "kill" /\ loc'.after = "error" /\ loc'.err \in HeloErrors
       /\ (pc = "kill" /\ loc.err \in HeloErrors /\ pc' # pc)
             => /\ pc' = "waitpid"
                /\ procs'[reprl_ctx.pid].state \in {"dying", "zombie"}
       /\ (pc = "waitpid" /\ loc.err \in HeloErrors /\ pc' # pc)
             => /\ loc.killed = reprl_ctx.pid
                /\ procs'[reprl_ctx.pid].state = "reaped"
                /\ NoChildRecorded(reprl_ctx', pipes')
                /\ pc' = "idle"
                /\ ret' = [op |-> "reprl_execute", value |-> -1]
       /\ ExecSent => loc.err \notin HeloErrors /\ procs[reprl_ctx.pid].helo]_vars

\* The child sent four bytes that are not "HELO"; it has been killed and the
\* parent is about to reap it.
C31_Witness ==
    /\ pc = "waitpid"
    /\ loc.err = "Received invalid HELO message from child"
    /\ loc.killed = reprl_ctx.pid
    /\ procs[reprl_ctx.pid].state = "zombie"

\* the echo failed: the child had closed its end of the pipe
EchoFailed ==
    pc = "waitpid" /\ loc.err = "Failed to send HELO reply message to child"

\* ---------------------------------------------------------------------------
\* The order of script, command and length.
\* ---------------------------------------------------------------------------

\* in the pipe to the child every length follows its "exec"; the child has
\* taken the "exec" of a length that is first in the pipe
ExecBeforeSize(p) ==
    \A k \in 1 .. Len(pipes[p].cw) :
       pipes[p].cw[k].tag = "size"
          => IF k = 1 THEN procs[p].at = "got_exec"
             ELSE pipes[p].cw[k - 1].tag = "exec"

\* the parent's half: the script is in the channel when "exec" is written,
\* and "exec" is written before the length
ScriptThenExecThenSize ==
    /\ [](\A p \in Pids : ExecBeforeSize(p))
    /\ [][ExecSent => chan.script_len = loc.script_length]_vars

\* the child's half: when it has read the command and the length, the script
\* of that length is in the channel and the file position is 0
ChildFindsScript ==
    [][\A p \in Pids :
          ChildReadScript(p)
             => /\ chan.data_out_pos = 0
                /\ chan.script_len = Head(pipes[p].cw).n]_vars

\* C32: in every execute the parent rewinds the data channels and copies the
\* whole script into the script channel before it writes "exec", and writes
\* "exec" before the 8-byte length; so whenever the child has read the command
\* and the length, the script of that length is in the channel and the file
\* position of the channel is 0.
C32_ScriptBeforeExec ==
    /\ [](\A p \in Pids : ExecBeforeSize(p))
    /\ [][/\ ExecSent => chan.script_len = loc.script_length
          /\ \A p \in Pids :
                ChildReadScript(p)
                   => /\ chan.data_out_pos = 0
                      /\ chan.script_len = Head(pipes[p].cw).n]_vars

\* ---------------------------------------------------------------------------
\* virgin_bits and crash_bits.
\* ---------------------------------------------------------------------------

\* a call of the parent has returned in this step
CovReturned(op) ==
    cov_ret'.op = op /\ <<context, cov_ret>>' # <<context, cov_ret>>

\* C33: the two maps are independent: cov_evaluate_crash leaves virgin_bits
\* and found_edges unchanged and cov_evaluate leaves crash_bits unchanged, so
\* an edge first seen in a crashing execution is still returned as new by the
\* first later cov_evaluate that sees it.
C33_IndependentMaps ==
    [][/\ CovReturned("cov_evaluate_crash")
             => /\ context'.virgin_bits = context.virgin_bits
                /\ context'.found_edges = context.found_edges
       /\ CovReturned("cov_evaluate")
             => /\ context'.crash_bits = context.crash_bits
                /\ \A i \in LiveEdges :
                      i \in context.virgin_bits
                         => /\ i \in Range(cov_ret'.edge_indices)
                            /\ i \notin context'.virgin_bits]_vars

\* cov_evaluate has returned as new an edge that cov_evaluate_crash had seen
\* before
C33_Witness ==
    /\ cov_ret.op = "cov_evaluate"
    /\ cov_ret.rv = 1
    /\ \E i \in Range(cov_ret.edge_indices) :
          /\ i >= 1 /\ i < context.num_edges
          /\ i \notin context.crash_bits
          /\ i \notin context.virgin_bits

\* ---------------------------------------------------------------------------
\* Guards over the executions of one child.
\* ---------------------------------------------------------------------------

\* the bit the guard at position g sets
GuardBit(g) == BitAddr(ChildEdgesOffset(child_cov.layout), g)

AllTripsFinished == \A t \in Threads : thr.t[t].at = "out"

\* bit 0 of the bitmap is never set by a trip, under every interleaving
BitZeroNeverSet == 0 \notin thr.edges

\* Claim C35: under every interleaving of the trips of several threads, on
\* the same guard or on different ones, bit 0 is never set and, once all
\* trips have finished, the bit of every guard tripped since the reset is set.
C35_ConcurrentTrips ==
    /\ BitZeroNeverSet
    /\ AllTripsFinished => \A g \in thr.tripped : g \in thr.edges

\* the supervisor is in its fork loop, or has been
InForkLoop == hs.at \in {"loop_read", "fork"} \/ hs.forked > 0

\* the greeting went through: "HELO" written in full, four bytes read back,
\* and they are "HELO"
HeloExchanged == hs.wrote = 4 /\ hs.nread = 4 /\ hs.got = HELO

\* four bytes that differ from "HELO" end the supervisor before any fork
MismatchExits ==
    (hs.nread = 4 /\ hs.got # HELO /\ hs.at # "memcmp") => hs.at = "exited" /\ hs.forked = 0

\* Claim C36: the supervisor enters its fork loop only after it wrote "HELO"
\* to fd 138 and read back exactly four bytes equal to "HELO" from fd 137; a
\* failed or short write or read, or other bytes, end it with no grandchild
\* forked.
C36_SupervisorHelo == InForkLoop => HeloExchanged

\* forkserver_spawn makes its kill(pid, SIGKILL)
SpawnKills == fsv.pc = "kill" /\ fsv'.pc = "read_status"

\* pid holds the pid of the grandchild forked for the running request, and
\* the supervisor has not yet reaped that grandchild
KillTargetUnreaped ==
    /\ fsv.pid.kind = "pid"
    /\ fsv.pid.of = fsv.calls
    /\ fsv.gc[fsv.pid.of].state \in {"running", "zombie"}

\* Claim C37: on a timeout forkserver_spawn sends SIGKILL only to the
\* grandchild forked for this request, and only while the supervisor has not
\* reaped it: the grandchild is never reaped between the timeout of poll and
\* the kill.
C37_KillOnlyOwnGrandchild == [][SpawnKills => KillTargetUnreaped]_vars

\* the same with a pid that was read: the grandchild may still be reaped
\* between poll and kill
KillOfReadPidUnreaped ==
    [][(SpawnKills /\ fsv.pid.kind = "pid" /\ fsv.pid.of = fsv.calls)
          => fsv.gc[fsv.pid.of].state \in {"running", "zombie"}]_vars

\* the children the parent has forked and not yet reaped
UnreapedChildren == {p \in Pids : procs[p].state \in {"running", "dying", "zombie"}}

\* fork returns a new child to the parent
ChildForked == \E p \in Pids : procs[p].state = "unborn" /\ procs'[p].state # "unborn"

\* kill(ctx->pid, SIGKILL) is made
KillSent == pc = "kill" /\ pc' = "waitpid"

\* the context stops recording its child
ChildForgotten == reprl_ctx.pid # 0 /\ reprl_ctx'.pid = 0

\* reprl_destroy_context returns
DestroyReturned == ret.op # "reprl_destroy_context" /\ ret'.op = "reprl_destroy_context"

\* Claim C38: a context never has more than one unreaped child: a child is
\* forked only while none is recorded, the pid is set to 0 only once waitpid
\* has reaped the child, reprl_destroy_context kills and reaps a recorded
\* child, and SIGKILL is only sent to a pid that is not yet reaped.
C38_OneUnreapedChild ==
    /\ [](/\ Cardinality(UnreapedChildren) <= 1
          /\ UnreapedChildren \subseteq {reprl_ctx.pid})
    /\ [][/\ ChildForked => reprl_ctx.pid = 0 /\ UnreapedChildren = {}
          /\ ChildForgotten => procs'[reprl_ctx.pid].state = "reaped"
          /\ KillSent => reprl_ctx.pid \in UnreapedChildren
          /\ DestroyReturned =>
                /\ UnreapedChildren' = {}
                /\ reprl_ctx.pid # 0 => loc.killed = reprl_ctx.pid]_vars

\* a second child runs after the first was killed and reaped, and the
\* context is destroyed with it: the kill of reprl_destroy_context was sent
C38_Witness ==
    /\ pc = "waitpid"
    /\ loc.op = "reprl_destroy_context"
    /\ loc.killed = reprl_ctx.pid
    /\ \E p \in Pids : procs[p].state = "reaped"
    /\ procs[reprl_ctx.pid].state = "zombie"

\* with edge tracking, every edge from 1 on whose virgin bit is 0 has a
\* count that is not 0
CountedWhenFound(ctx) ==
    ctx.should_track_edges =>
        \A i \in 1 .. ctx.num_edges - 1 :
            edge(ctx.virgin_bits, i) = 0 => ctx.edge_count[i] # 0

\* the same while no count has reached 2^32: the states of the coverage
\* machine, whose counts stay below MaxCount + 1
CountedBelowWrap == context.phase = "ready" => CountedWhenFound(context)

\* Claim C39: with edge tracking enabled, in every state reached through
\* evaluate, evaluate_crash, clear_bitmap, clear_edge_data and reset_state,
\* every edge from 1 on whose virgin bit is 0 has a count above 0, so the
\* assertion on edge_count in cov_clear_edge_data holds for such an index.
C39_VirginClearMeansCounted ==
    /\ ecw.ctx.phase # "aborted"
    /\ CountedWhenFound(ecw.ctx)

\* what WaitForSingleObject(hChild, timeout) answers while the child keeps
\* running: a process handle is signalled only when the process has ended
ChildKeepsRunning == "WAIT_TIMEOUT"

\* Claim C40: on the normal path the Windows reprl_execute behaves as the
\* POSIX one: when the child writes its status before the timeout and keeps
\* running (the system making every pipe and process it is asked for, and
\* the child sending HELO), the call returns the low 16 bits of that status
\* and leaves the child alive; it returns no timeout status then.
C40_WindowsNormalPath ==
    [][\A script_size \in ScriptLengths \ {REPRL_MAX_DATA_SIZE + 1},
          timeout \in SpawnTimeouts, fresh_instance \in BOOLEAN,
          status \in StatusWords :
            (/\ win.initialized = 1
             /\ win_reprl_execute(script_size, timeout, fresh_instance, TRUE,
                                  TRUE, TRUE, TRUE, ChildKeepsRunning, status))
            => /\ win'.ret.value = status % 65536
               /\ win'.live = 1
               /\ win'.events # <<>>
               /\ win'.events[Len(win'.events)] = "status"]_vars
====
